---- MODULE Spec2Model ----
(***************************************************************************)
(* The External Process Interface (EPI) of kurobako: the framed-JSON       *)
(* channel (kurobako_core/src/epi/channel.rs) and the problem-side handles *)
(* that share one child process                                            *)
(* (kurobako_core/src/epi/problem/external_program.rs); and the in-process *)
(* components: domains, the random solver, the Optuna evaluator.           *)
(*                                                                         *)
(* The specifications are defined over the same variables:                 *)
(*   SpecLaunch  create_factory: spawn the child and read its first        *)
(*               message with MessageReceiver::recv;                       *)
(*   Spec        the operations of the factory / problem / evaluator       *)
(*               handles, run by several threads on one child.  Its        *)
(*               initial state is the one the Ok branches of               *)
(*               create_factory, create_problem and create_evaluator       *)
(*               build: one factory, problem 0 and evaluator (0, 0);       *)
(*   FairSpec    Spec with fair scheduling of the threads and of the       *)
(*               child;                                                    *)
(*   SpecMatch   ExternalProgramEvaluator::evaluate on the replies of the  *)
(*               child, one evaluator, successive calls;                   *)
(*   SpecFinish  VariableBuilder::finish (kurobako_core/src/domain.rs);    *)
(*   SpecDomain  Domain::new on vectors of builders;                       *)
(*   SpecSolver  RandomSolver::ask and tell on one IdGen                   *)
(*               (kurobako_solvers/src/random.rs);                         *)
(*   SpecOptuna  the loop of OptunaEvaluator::evaluate                     *)
(*               (src/problem_optuna.rs);                                  *)
(*   SpecProblem ProblemSpecBuilder (kurobako_core/src/problem.rs);        *)
(*   SpecRequirements  ProblemSpec::requirements;                          *)
(*   SpecCapabilities  Capabilities::is_superset and incapables            *)
(*               (kurobako_core/src/solver.rs);                            *)
(*   SpecMessage ProblemMessage written as JSON and read back              *)
(*               (kurobako_core/src/epi/problem/message.rs);               *)
(*   SpecFilter  filter_ask and filter_tell of the param-rewriting         *)
(*               filters (src/filters.rs);                                 *)
(*   FairSpecBudget  the loop of OptunaEvaluator::evaluate without the     *)
(*               bound on its passes, fairly scheduled;                    *)
(*   SpecDecode  Domain read from JSON by its derived Deserialize;         *)
(*   SpecExternal  ExternalCommandOptimizer over the lines of its child    *)
(*               (src/optimizer/external_command.rs);                      *)
(*   SpecScorer  Scorer::new and best_value over the trials of a study     *)
(*               (src/record/study.rs).                                    *)
(***************************************************************************)
EXTENDS Integers, Sequences, FiniteSets, TLC

\* ---------------------------------------------------------------- bounds
NumThreads == 2
MaxOps == 2
MaxLogLines == 1
MaxErr == 3
MaxLines == 3
MaxNum == 2
MaxVars == 3
EvaluationSteps == 2
MaxAsks == 3
MaxEvals == 3
MaxBudget == 2
MaxDelta == 2
MaxRounds == 3
MaxParams == 2
MaxTrials == 3

Threads == 1..NumThreads
None == 0

\* ------------------------------------------------------ bytes and tokens
\* A line is a sequence of tokens.  Tag is the nine bytes "kurobako:", NL
\* the newline, Txt free text (log output, or text that is not JSON) and
\* Obj(m) the JSON text of one object, the encoding of message m.
Tag == [k |-> "kurobako:"]
NL == [k |-> "\n"]
Txt(s) == [k |-> "text", s |-> s]
Obj(m) == [k |-> "json", m |-> m]

\* ------------------------------------------- ProblemMessage (message.rs)
ErrorKinds == {"UNEVALUABLE", "OTHER"}
Values == {<<0>>}
\* current_step values a child reports, max_step values evaluate is given
Steps == {0, 1}
MaxSteps == {1}
ParamsSet == {<<0>>}
Seeds == {0}
ProblemSpecs == {"spec"}

ProblemSpecCast(spec) == [type |-> "PROBLEM_SPEC_CAST", spec |-> spec]
CreateProblemCast(pid, seed) ==
  [type |-> "CREATE_PROBLEM_CAST", problem_id |-> pid, random_seed |-> seed]
DropProblemCast(pid) == [type |-> "DROP_PROBLEM_CAST", problem_id |-> pid]
CreateEvaluatorCall(pid, eid, params) ==
  [type |-> "CREATE_EVALUATOR_CALL", problem_id |-> pid, evaluator_id |-> eid,
   params |-> params]
CreateEvaluatorReply == [type |-> "CREATE_EVALUATOR_REPLY"]
DropEvaluatorCast(pid, eid) ==
  [type |-> "DROP_EVALUATOR_CAST", problem_id |-> pid, evaluator_id |-> eid]
EvaluateCall(pid, eid, max_step) ==
  [type |-> "EVALUATE_CALL", problem_id |-> pid, evaluator_id |-> eid,
   max_step |-> max_step]
EvaluateReply(current_step, values) ==
  [type |-> "EVALUATE_REPLY", current_step |-> current_step, values |-> values]
ErrorReply(kind) == [type |-> "ERROR_REPLY", kind |-> kind]

\* The messages a child may put on its stdout.
ChildMessages ==
  {ProblemSpecCast(s) : s \in ProblemSpecs}
    \cup {CreateEvaluatorReply}
    \cup {EvaluateReply(c, v) : c \in Steps, v \in Values}
    \cup {ErrorReply(k) : k \in ErrorKinds}

\* The messages a child answers a call with: the two replies and the error.
Replies == {m \in ChildMessages : m.type # "PROBLEM_SPEC_CAST"}

\* ----------------------------------------------------- results (Result<T>)
NoRes == [tag |-> "none"]
Ok(v) == [tag |-> "ok", v |-> v]
Err(kind) == [tag |-> "err", kind |-> kind]

\* Option<T>
NoneOpt == [tag |-> "none"]
Some(v) == [tag |-> "some", v |-> v]

\* ------------------------------------- message.rs: enum ProblemMessage
\* A variant: its name, word by word, and the names of its fields.
Variant(name, fields) == [name |-> name, fields |-> fields]

\* the variants of enum ProblemMessage
ProblemMessageVariants ==
  {Variant(<<"Problem", "Spec", "Cast">>, {"spec"}),
   Variant(<<"Create", "Problem", "Cast">>, {"problem_id", "random_seed"}),
   Variant(<<"Drop", "Problem", "Cast">>, {"problem_id"}),
   Variant(<<"Create", "Evaluator", "Call">>,
           {"problem_id", "evaluator_id", "params"}),
   Variant(<<"Create", "Evaluator", "Ok", "Reply">>, {}),
   Variant(<<"Drop", "Evaluator", "Cast">>, {"problem_id", "evaluator_id"}),
   Variant(<<"Evaluate", "Call">>,
           {"problem_id", "evaluator_id", "next_step"}),
   Variant(<<"Evaluate", "Ok", "Reply">>, {"current_step", "values"}),
   Variant(<<"Error", "Reply">>, {"kind", "message"})}

\* the fields marked #[serde(default)]
DefaultFields == {"message"}

\* the variants external_program.rs builds and matches on, with the fields
\* it names
HostVariants ==
  {Variant(<<"Problem", "Spec", "Cast">>, {"spec"}),
   Variant(<<"Create", "Problem", "Cast">>, {"problem_id", "random_seed"}),
   Variant(<<"Drop", "Problem", "Cast">>, {"problem_id"}),
   Variant(<<"Create", "Evaluator", "Call">>,
           {"problem_id", "evaluator_id", "params"}),
   Variant(<<"Create", "Evaluator", "Reply">>, {}),
   Variant(<<"Drop", "Evaluator", "Cast">>, {"problem_id", "evaluator_id"}),
   Variant(<<"Evaluate", "Call">>,
           {"problem_id", "evaluator_id", "max_step"}),
   Variant(<<"Evaluate", "Reply">>, {"current_step", "values"}),
   Variant(<<"Error", "Reply">>, {"kind", "message"})}

\* a word of a variant name in upper case
Upper(word) ==
  CASE word = "Problem" -> "PROBLEM"
    [] word = "Spec" -> "SPEC"
    [] word = "Cast" -> "CAST"
    [] word = "Create" -> "CREATE"
    [] word = "Drop" -> "DROP"
    [] word = "Evaluator" -> "EVALUATOR"
    [] word = "Evaluate" -> "EVALUATE"
    [] word = "Call" -> "CALL"
    [] word = "Ok" -> "OK"
    [] word = "Reply" -> "REPLY"
    [] word = "Error" -> "ERROR"

\* serde(rename_all = "SCREAMING_SNAKE_CASE"): the words of the variant name
\* in upper case, joined by underscores
RECURSIVE ScreamingSnakeCase(_)
ScreamingSnakeCase(name) ==
  IF Len(name) = 1 THEN Upper(name[1])
  ELSE Upper(Head(name)) \o "_" \o ScreamingSnakeCase(Tail(name))

\* the values of the "type" field that serde writes and accepts
ProblemMessageTypes ==
  {ScreamingSnakeCase(v.name) : v \in ProblemMessageVariants}

\* a value of ProblemMessage
Message(name, fields) == [variant |-> name, fields |-> fields]

\* serde_json::to_string on a ProblemMessage (serde(tag = "type")): the object
\* with the type and the fields of the variant
ToJson(m) == [type |-> ScreamingSnakeCase(m.variant), fields |-> m.fields]

\* serde_json::from_str to a ProblemMessage, on a JSON object: the variant is
\* found by the type, every field without a default must be there
FromJson(j) ==
  LET vs == {v \in ProblemMessageVariants :
               /\ ScreamingSnakeCase(v.name) = j.type
               /\ (v.fields \ DefaultFields) \subseteq DOMAIN j.fields}
  IN IF vs = {} THEN Err("FROM_SERDE_JSON")
     ELSE LET v == CHOOSE v \in vs : TRUE IN
       Ok(Message(v.name,
                  [f \in v.fields |-> IF f \in DOMAIN j.fields
                                        THEN j.fields[f] ELSE NoneOpt]))

\* ------------------------------------------------------------ channel.rs
\* MessageSender::send: the tag, the JSON of the message, a newline.
Frame(m) == <<Tag, Obj(m), NL>>

\* str::starts_with
StartsWith(s, p) == Len(s) >= Len(p) /\ SubSeq(s, 1, Len(p)) = p

IsWs(tok) == tok.k = "\n"

RECURSIVE SkipWs(_)
SkipWs(s) == IF s # <<>> /\ IsWs(Head(s)) THEN SkipWs(Tail(s)) ELSE s

RECURSIVE AllWs(_)
AllWs(s) == s = <<>> \/ (IsWs(Head(s)) /\ AllWs(Tail(s)))

\* serde_json::from_str::<ProblemMessage>: leading whitespace is skipped, a
\* JSON value must start right there, it must be an object of a known
\* variant, and only whitespace may follow.
FromStr(s) ==
  LET t == SkipWs(s) IN
    IF t = <<>> THEN Err("FROM_SERDE_JSON")
    ELSE IF Head(t).k # "json" THEN Err("FROM_SERDE_JSON")
    ELSE IF Head(t).m.type \notin ProblemMessageTypes THEN Err("FROM_SERDE_JSON")
    ELSE IF ~AllWs(Tail(t)) THEN Err("FROM_SERDE_JSON")
    ELSE Ok(Head(t).m)

\* The text recv hands to the JSON parser: the whole line buffer.
ParseInput(line) == line

\* The line buffer at the start of a loop iteration of recv: the buffer is
\* created once, before the loop, and read_line appends to it.
LoopLine(line) == line

\* ------------------------------------------------------------- domain.rs
\* Numbers (f64 and i64 alike) are integers of a small interval.
Nums == (-1)..MaxNum

Names == {"a", "b"}
Distributions == {"UNIFORM", "LOG_UNIFORM"}

\* enum Range
Continuous(low, high) == [t |-> "CONTINUOUS", low |-> low, high |-> high]
Discrete(low, high) == [t |-> "DISCRETE", low |-> low, high |-> high]
Categorical(choices) == [t |-> "CATEGORICAL", choices |-> choices]

\* enum Condition
CondEq(target, value) == [target |-> target, value |-> value]

\* struct VariableBuilder, and struct Variable: the same four fields
Var(name, range, distribution, conditions) ==
  [name |-> name, range |-> range, distribution |-> distribution,
   conditions |-> conditions]

\* variant: the bounds of a numerical range may be equal
RangeNonEmptyOrEqual(range) ==
  CASE range.t = "CONTINUOUS" -> range.low <= range.high
    [] range.t = "DISCRETE" -> range.low <= range.high
    [] range.t = "CATEGORICAL" -> Len(range.choices) > 0

\* VariableBuilder::finish, the first match: the three track_assert!
RangeNonEmpty(range) ==
  CASE range.t = "CONTINUOUS" -> range.low < range.high
    [] range.t = "DISCRETE" -> range.low < range.high
    [] range.t = "CATEGORICAL" -> Len(range.choices) > 0

\* variant: a log-uniform range may start at zero
LogUniformOkFromZero(range) ==
  CASE range.t = "CONTINUOUS" -> 0 <= range.low
    [] range.t = "DISCRETE" -> 0 <= range.low
    [] range.t = "CATEGORICAL" -> FALSE

\* VariableBuilder::finish, the second match: the arms that do not panic
LogUniformOk(range) ==
  CASE range.t = "CONTINUOUS" -> 0 < range.low
    [] range.t = "DISCRETE" -> 0 < range.low
    [] range.t = "CATEGORICAL" -> FALSE

\* VariableBuilder::finish
Finish(b) ==
  IF ~RangeNonEmpty(b.range) THEN Err("INVALID_INPUT")
  ELSE IF b.distribution = "LOG_UNIFORM" /\ ~LogUniformOk(b.range)
    THEN Err("INVALID_INPUT")
  ELSE Ok(Var(b.name, b.range, b.distribution, b.conditions))

\* Range::contains
RangeContains(range, v) ==
  CASE range.t = "CONTINUOUS" -> range.low <= v /\ v < range.high
    [] range.t = "DISCRETE" -> range.low <= v /\ v < range.high
    [] range.t = "CATEGORICAL" -> 0 <= v /\ v < Len(range.choices)

\* Condition::validate: the loop over the preceding variables skips the ones
\* with another name and fails on a target whose range lacks the value; a
\* target that passes lets the loop go on, and the statement after the loop
\* is track_panic!.
RECURSIVE ConditionValidate(_, _)
ConditionValidate(c, preceding_variables) ==
  IF preceding_variables = <<>> THEN Err("INVALID_INPUT")
  ELSE LET v == Head(preceding_variables) IN
    IF c.target # v.name THEN ConditionValidate(c, Tail(preceding_variables))
    ELSE IF ~RangeContains(v.range, c.value) THEN Err("INVALID_INPUT")
    ELSE ConditionValidate(c, Tail(preceding_variables))

\* Domain::new, the loop `for c in &v.conditions`: the first error is returned
RECURSIVE ValidateConditions(_, _)
ValidateConditions(conditions, vars) ==
  IF conditions = <<>> THEN Ok(<<>>)
  ELSE LET r == ConditionValidate(Head(conditions), vars) IN
    IF r.tag = "err" THEN r ELSE ValidateConditions(Tail(conditions), vars)

\* variant: the name is compared with the last pushed variable only
NameUnusedByLast(vars, v) ==
  vars = <<>> \/ v.name # vars[Len(vars)].name

\* Domain::new, the track_assert! on the names
NameUnused(vars, v) == \A i \in DOMAIN vars : v.name # vars[i].name

\* Domain::new, the loop over the builders with the vector vars built so far
RECURSIVE DomainNewLoop(_, _)
DomainNewLoop(bs, vars) ==
  IF bs = <<>> THEN Ok(vars)
  ELSE LET f == Finish(Head(bs)) IN
    IF f.tag = "err" THEN f
    ELSE IF ~NameUnused(vars, f.v) THEN Err("INVALID_INPUT")
    ELSE LET c == ValidateConditions(f.v.conditions, vars) IN
      IF c.tag = "err" THEN c
      ELSE DomainNewLoop(Tail(bs), Append(vars, f.v))

\* Domain::new
DomainNew(bs) == DomainNewLoop(bs, <<>>)

\* the builders finish is tried on: every range over Nums, categorical
\* ranges without choices, with distinct ones and with a repeated one, both
\* distributions
FinishRanges ==
  {Continuous(l, h) : l \in Nums, h \in Nums}
    \cup {Discrete(l, h) : l \in Nums, h \in Nums}
    \cup {Categorical(<<>>), Categorical(<<"false", "true">>),
          Categorical(<<"x", "x">>)}

FinishBuilders ==
  {Var("a", r, d, <<>>) : r \in FinishRanges, d \in Distributions}

\* the builders Domain::new is given: valid and invalid ones without
\* conditions, and valid ones with one condition
Targets == Names \cup {"z"}
CondValues == {0, 5}
Conditions == {CondEq(t, v) : t \in Targets, v \in CondValues}

DomainBuilders ==
  {Var(n, r, "UNIFORM", <<>>) :
     n \in Names, r \in {Discrete(0, 2), Categorical(<<>>)}}
    \cup {Var(n, Continuous(1, 2), "LOG_UNIFORM", <<>>) : n \in Names}
    \cup {Var(n, Discrete(0, 2), "UNIFORM", <<c>>) :
            n \in Names, c \in Conditions}

\* --------------------------------------------- domain.rs, Deserialize
\* The JSON of the derived Serialize: Range and Condition are enums written
\* as an object with the variant as its one key, Domain is a newtype written
\* as the array of its variables.
JContinuous(low, high) == [CONTINUOUS |-> [low |-> low, high |-> high]]
JDiscrete(low, high) == [DISCRETE |-> [low |-> low, high |-> high]]
JCategorical(choices) == [CATEGORICAL |-> [choices |-> choices]]
JCondEq(target, value) == [EQ |-> [target |-> target, value |-> value]]
JVar(name, range, distribution, conditions) ==
  [name |-> name, range |-> range, distribution |-> distribution,
   conditions |-> conditions]

\* #[derive(Deserialize)] on Range: one key that names a variant, and the
\* fields of the variant
RangeFromJson(j) ==
  IF DOMAIN j = {"CONTINUOUS"} /\ {"low", "high"} \subseteq DOMAIN j.CONTINUOUS
    THEN Ok(Continuous(j.CONTINUOUS.low, j.CONTINUOUS.high))
  ELSE IF DOMAIN j = {"DISCRETE"} /\ {"low", "high"} \subseteq DOMAIN j.DISCRETE
    THEN Ok(Discrete(j.DISCRETE.low, j.DISCRETE.high))
  ELSE IF DOMAIN j = {"CATEGORICAL"} /\ {"choices"} \subseteq DOMAIN j.CATEGORICAL
    THEN Ok(Categorical(j.CATEGORICAL.choices))
  ELSE Err("FROM_SERDE_JSON")

\* #[derive(Deserialize)] on Distribution
DistributionFromJson(j) ==
  IF j \in Distributions THEN Ok(j) ELSE Err("FROM_SERDE_JSON")

\* #[derive(Deserialize)] on Condition
ConditionFromJson(j) ==
  IF DOMAIN j = {"EQ"} /\ {"target", "value"} \subseteq DOMAIN j.EQ
    THEN Ok(CondEq(j.EQ.target, j.EQ.value))
  ELSE Err("FROM_SERDE_JSON")

\* #[derive(Deserialize)] on Variable: the four fields must be there and
\* each must decode; nothing else is looked at
VariableFromJson(j) ==
  IF ~({"name", "range", "distribution", "conditions"} \subseteq DOMAIN j)
    THEN Err("FROM_SERDE_JSON")
  ELSE
    LET r == RangeFromJson(j.range)
        d == DistributionFromJson(j.distribution)
        cs == [k \in DOMAIN j.conditions |-> ConditionFromJson(j.conditions[k])]
    IN IF r.tag = "err" \/ d.tag = "err" \/ \E k \in DOMAIN cs : cs[k].tag = "err"
         THEN Err("FROM_SERDE_JSON")
         ELSE Ok(Var(j.name, r.v, d.v, [k \in DOMAIN cs |-> cs[k].v]))

\* #[derive(Deserialize)] on Domain(Vec<Variable>): the variables of the
\* array, in its order
DomainFromJson(j) ==
  LET vs == [i \in DOMAIN j |-> VariableFromJson(j[i])] IN
    IF \E i \in DOMAIN vs : vs[i].tag = "err" THEN Err("FROM_SERDE_JSON")
    ELSE Ok([i \in DOMAIN vs |-> vs[i].v])

\* the variable objects a JSON text may hold: what Domain::new accepts, what
\* it rejects, and objects that are no Variable
VariableJsons ==
  {JVar(n, JDiscrete(0, 2), "UNIFORM", <<>>) : n \in Names}
    \cup {JVar("a", JDiscrete(2, 0), "UNIFORM", <<>>),
          JVar("a", JCategorical(<<>>), "UNIFORM", <<>>),
          JVar("a", JContinuous(0, 1), "LOG_UNIFORM", <<>>),
          JVar("b", JCategorical(<<"x">>), "UNIFORM", <<JCondEq("a", 0)>>),
          JVar("b", JDiscrete(0, 2), "UNIFORM", <<JCondEq("z", 0)>>),
          JVar("b", JDiscrete(0, 2), "NORMAL", <<>>),
          JVar("b", [REAL |-> [low |-> 0, high |-> 2]], "UNIFORM", <<>>),
          [name |-> "b", range |-> JDiscrete(0, 2), distribution |-> "UNIFORM"]}

\* the arrays of at most two of them
DomainJsons ==
  {<<>>} \cup {<<v>> : v \in VariableJsons}
    \cup {<<v, w>> : v \in VariableJsons, w \in VariableJsons}

\* ------------------------------------------------------------ problem.rs
\* ProblemSpecBuilder::new (the name and the attributes are left out)
ProblemSpecBuilderNew ==
  [params |-> <<>>, values |-> <<>>, evaluation_steps |-> 1]

\* variant: zero passes
NonZeroU64NewAny(n) == [tag |-> "some", v |-> n]

\* ProblemSpecBuilder::finish: NonZeroU64::new(self.evaluation_steps)
NonZeroU64New(n) ==
  IF n = 0 THEN [tag |-> "none"] ELSE [tag |-> "some", v |-> n]

\* struct ProblemSpec
ProblemSpec(params_domain, values_domain, evaluation_steps) ==
  [params_domain |-> params_domain, values_domain |-> values_domain,
   evaluation_steps |-> evaluation_steps]

\* ProblemSpecBuilder::finish
ProblemSpecBuilderFinish(b) ==
  LET params_domain == DomainNew(b.params) IN
    IF params_domain.tag = "err" THEN params_domain
    ELSE LET values_domain == DomainNew(b.values) IN
      IF values_domain.tag = "err" THEN values_domain
      ELSE LET evaluation_steps == NonZeroU64New(b.evaluation_steps) IN
        IF evaluation_steps.tag = "none" THEN Err("INVALID_INPUT")
        ELSE Ok(ProblemSpec(params_domain.v, values_domain.v,
                            evaluation_steps.v))

\* the builders a ProblemSpecBuilder is given: two valid ones and one whose
\* range is empty
ProblemBuilders ==
  {Var("a", Discrete(0, 2), "UNIFORM", <<>>),
   Var("b", Continuous(1, 2), "LOG_UNIFORM", <<>>),
   Var("b", Categorical(<<>>), "UNIFORM", <<>>)}

\* ---------------------------------------- solver.rs: Capabilities
\* enum Capability, under its serde names
Capability ==
  {"UNIFORM_CONTINUOUS", "UNIFORM_DISCRETE", "LOG_UNIFORM_CONTINUOUS",
   "LOG_UNIFORM_DISCRETE", "CATEGORICAL", "CONDITIONAL", "MULTI_OBJECTIVE"}

\* Capabilities::all: the array it collects
CapabilitiesAll ==
  {"UNIFORM_CONTINUOUS", "UNIFORM_DISCRETE", "LOG_UNIFORM_CONTINUOUS",
   "LOG_UNIFORM_DISCRETE", "CATEGORICAL", "CONDITIONAL", "MULTI_OBJECTIVE"}

\* Capabilities::empty
CapabilitiesEmpty == {}

\* Capabilities::is_superset (BTreeSet::is_superset): every element of other
\* is an element of self
IsSuperset(self, other) == \A c \in other : c \in self

\* variant: the elements of self that required lacks
IncapablesOfSelf(self, required) == {c \in self : c \notin required}

\* Capabilities::incapables: required.0.difference(&self.0)
Incapables(self, required) == {c \in required : c \notin self}

\* ------------------------------- problem.rs: ProblemSpec::requirements
\* variant: one value variable is enough
MultiObjectiveFromOne(values_domain) == Len(values_domain) >= 1

\* requirements: `self.values_domain.variables().len() > 1`
MultiObjective(values_domain) == Len(values_domain) > 1

\* requirements: the match on (v.range(), v.distribution())
RangeCapability(v) ==
  CASE v.range.t = "CONTINUOUS" /\ v.distribution = "UNIFORM" ->
         "UNIFORM_CONTINUOUS"
    [] v.range.t = "CONTINUOUS" /\ v.distribution = "LOG_UNIFORM" ->
         "LOG_UNIFORM_CONTINUOUS"
    [] v.range.t = "DISCRETE" /\ v.distribution = "UNIFORM" ->
         "UNIFORM_DISCRETE"
    [] v.range.t = "DISCRETE" /\ v.distribution = "LOG_UNIFORM" ->
         "LOG_UNIFORM_DISCRETE"
    [] v.range.t = "CATEGORICAL" -> "CATEGORICAL"

\* requirements: the loop over params_domain, c the set built so far
RECURSIVE RequirementsLoop(_, _)
RequirementsLoop(vs, c) ==
  IF vs = <<>> THEN c
  ELSE LET v == Head(vs)
           c1 == IF v.conditions # <<>> THEN c \cup {"CONDITIONAL"} ELSE c
       IN RequirementsLoop(Tail(vs), c1 \cup {RangeCapability(v)})

\* ProblemSpec::requirements
Requirements(spec) ==
  RequirementsLoop(spec.params_domain,
                   IF MultiObjective(spec.values_domain)
                     THEN CapabilitiesEmpty \cup {"MULTI_OBJECTIVE"}
                     ELSE CapabilitiesEmpty)

\* the variables of the ProblemSpec values requirements is applied to.  A
\* ProblemSpec is Deserialize: its variables need not have passed finish or
\* Domain::new.
RequirementRanges ==
  {Continuous(1, 2), Discrete(1, 2), Categorical(<<"false", "true">>)}

RequirementVariables(name) ==
  {Var(name, r, d, <<>>) : r \in RequirementRanges, d \in Distributions}
    \cup {Var(name, Discrete(1, 2), "UNIFORM", <<CondEq("a", 1)>>)}

RequirementParams ==
  {<<>>}
    \cup {<<v>> : v \in RequirementVariables("a")}
    \cup {<<v, w>> : v \in RequirementVariables("a"),
                     w \in RequirementVariables("b")}

RequirementValues ==
  {<<>>,
   <<Var("v", Continuous(0, 1), "UNIFORM", <<>>)>>,
   <<Var("v", Continuous(0, 1), "UNIFORM", <<>>),
     Var("w", Continuous(0, 1), "UNIFORM", <<>>)>>}

RequirementSpecs ==
  {ProblemSpec(ps, vs, 1) : ps \in RequirementParams, vs \in RequirementValues}

\* ------------------------------------------------------------- random.rs
\* ProblemSpec::steps: the steps 1..evaluation_steps, ascending
ProblemSteps == [i \in 1..EvaluationSteps |-> i]

\* the problem the solver is created for (a ProblemSpec is Deserialize: its
\* conditional variable need not have passed Domain::new)
SolverProblem ==
  [params_domain |-> <<Var("a", Discrete(0, 2), "UNIFORM", <<>>),
                       Var("b", Continuous(1, 2), "LOG_UNIFORM", <<>>),
                       Var("c", Discrete(5, 6), "LOG_UNIFORM", <<>>),
                       Var("d", Categorical(<<"on">>), "UNIFORM",
                           <<CondEq("a", 0)>>)>>,
   steps |-> ProblemSteps]

\* RandomSolverFactory::specification: the capabilities of the solver
RandomSolverCapabilities == CapabilitiesAll

\* f64 arithmetic on the integers 1..8: the n for which (n as f64).log2()
\* .exp2() is below n.  log2 and exp2 round: log2(5.0) is the double under
\* the real logarithm, and exp2 of it is 4.999999999999999.
Exp2Log2Below == {5}

\* (n as f64).log2().exp2().floor()
FloorExp2Log2(n) == IF n \in Exp2Log2Below THEN n - 1 ELSE n

\* the values the match on p.range() may give for a parameter.
\* rng.gen_range(low, high) is a point of [low, high), low included.  The
\* continuous log-uniform draw is exp2 of a point of [log2 low, log2 high)
\* (the model gives it bounds that are powers of two, where log2 and exp2 are
\* exact); the discrete one is the floor of that, so its lowest point is
\* FloorExp2Log2(low).
GenParam(p) ==
  CASE p.range.t = "CONTINUOUS" -> p.range.low..(p.range.high - 1)
    [] p.range.t = "DISCRETE" /\ p.distribution = "UNIFORM" ->
         p.range.low..(p.range.high - 1)
    [] p.range.t = "DISCRETE" /\ p.distribution = "LOG_UNIFORM" ->
         {FloorExp2Log2(p.range.low)} \cup p.range.low..(p.range.high - 1)
    [] p.range.t = "CATEGORICAL" -> 0..(Len(p.range.choices) - 1)

\* the vectors the loop over params_domain may build
GenParams(d) ==
  {ps \in [DOMAIN d -> UNION {GenParam(d[i]) : i \in DOMAIN d}] :
     \A i \in DOMAIN d : ps[i] \in GenParam(d[i])}

\* steps.iter().find(|&s| s > current_step)
FindStep(steps, c) ==
  IF \E i \in DOMAIN steps : steps[i] > c
    THEN Some(steps[CHOOSE i \in DOMAIN steps :
                      /\ steps[i] > c
                      /\ \A j \in 1..(i - 1) : ~(steps[j] > c)])
    ELSE NoneOpt

\* IdGen::generate: the id issued and the generator afterwards
Generate(g) == [id |-> g, idg |-> g + 1]

NextTrial(id, params, next_step) ==
  [id |-> id, params |-> params, next_step |-> next_step]

\* RandomSolverFactory::create_solver
CreateSolver(ask_all_steps) ==
  [current_step |-> IF ask_all_steps THEN Some(0) ELSE NoneOpt]

\* variant: ask works on a copy of the generator, the caller's is not advanced
IdgByValue(g, gen) == g

\* ask takes the generator by &mut: the caller's generator is the advanced one
IdgByRef(g, gen) == gen.idg

\* RandomSolver::ask with the parameters it drew: the result and the
\* generator afterwards
RandomSolverAsk(sv, g, params) ==
  LET step == IF sv.current_step.tag = "some"
                THEN FindStep(SolverProblem.steps, sv.current_step.v)
                ELSE Some(SolverProblem.steps[Len(SolverProblem.steps)])
  IN
    IF step.tag = "none" THEN [res |-> Err("BUG"), idg |-> g]
    ELSE LET gen == Generate(g) IN
      [res |-> Ok(NextTrial(gen.id, params, step)), idg |-> IdgByRef(g, gen)]

\* RandomSolver::tell
RandomSolverTell(sv, trial) ==
  IF sv.current_step.tag = "some"
    THEN [sv EXCEPT !.current_step = Some(trial.current_step)]
    ELSE sv

\* ------------------------------- external_program.rs, evaluate on a reply
\* the current_step values a child may put into an EvaluateReply
ReplySteps == 0..(EvaluationSteps + 1)

\* the messages a child may answer an EvaluateCall with
EvaluateAnswers ==
  {EvaluateReply(c, v) : c \in ReplySteps, v \in Values}
    \cup {CreateEvaluatorReply}
    \cup {ErrorReply(k) : k \in ErrorKinds}

\* ------------------------------------------------------ problem_optuna.rs
\* Budget::is_consumed
IsConsumed(b) == b.consumption >= b.amount

\* variant: the whole consumption of the observation's budget is charged
ConsumptionAfter(new, old) == new

\* evaluate_once: delta_consumption
DeltaConsumption(new, old) == new - old

\* `<` on Values: the lexicographic order of the vectors
RECURSIVE LexLess(_, _)
LexLess(v, w) ==
  IF w = <<>> THEN FALSE
  ELSE IF v = <<>> THEN TRUE
  ELSE IF Head(v) # Head(w) THEN Head(v) < Head(w)
  ELSE LexLess(Tail(v), Tail(w))

\* evaluate: the update of best_values
BestValues(best, v) ==
  IF best.tag = "none" \/ LexLess(v, best.v) THEN Some(v) ELSE best

\* the points at which one round of evaluate_once may fail
OnceFailures == {"none", "ask", "create_evaluator", "evaluate", "tell"}

\* -------------------------------------------------------- record/study.rs
\* the fields of a TrialRecord that Scorer::new reads: obs_id,
\* evaluate.expense and evaluate.values[0]
TrialRecord(obs_id, expense, value) ==
  [obs_id |-> obs_id, expense |-> expense, value |-> value]

ObsIds == {0, 1}
Expenses == {0, 1}
ScoreValues == {0, 1, 2}
TrialBudgets == {1, 2}

TrialRecords ==
  {TrialRecord(i, e, v) : i \in ObsIds, e \in Expenses, v \in ScoreValues}

\* Scorer::new: `bests.is_empty() || Some(value) <= bests.last().map(|t| t.1)`
ValueImproves(bs, value) == bs = <<>> \/ value <= bs[Len(bs)][2]

\* variant: the first entry is pushed with the consumption so far
PushConsumptionAsIs(bs, consumption) == consumption

\* Scorer::new: the first entry is pushed with consumption 0
PushConsumption(bs, consumption) == IF bs = <<>> THEN 0 ELSE consumption

\* Scorer::new, the loop over study.trials: the expense of every observation
\* so far, the consumption so far and bests
RECURSIVE ScorerLoop(_, _, _, _, _)
ScorerLoop(rest, trial_budget, trials, consumption, bs) ==
  IF rest = <<>> THEN bs
  ELSE
    LET trial == Head(rest)
        trials1 == [trials EXCEPT ![trial.obs_id] = @ + trial.expense]
        consumption1 == consumption + trial.expense
        bs1 == IF /\ trials1[trial.obs_id] >= trial_budget
                  /\ ValueImproves(bs, trial.value)
                 THEN Append(bs, <<PushConsumption(bs, consumption1),
                                   trial.value>>)
                 ELSE bs
    IN ScorerLoop(Tail(rest), trial_budget, trials1, consumption1, bs1)

ScorerNew(st) ==
  ScorerLoop(st.trials, st.trial_budget, [i \in ObsIds |-> 0], 0, <<>>)

\* Iterator::take_while: the length of the longest prefix within the budget
RECURSIVE TakeWhile(_, _)
TakeWhile(bs, budget) ==
  IF bs = <<>> \/ ~(Head(bs)[1] <= budget) THEN 0
  ELSE 1 + TakeWhile(Tail(bs), budget)

\* Scorer::best_value: the value of the last entry taken; unwrap panics when
\* none is taken
BestValue(bs, budget) ==
  LET n == TakeWhile(bs, budget) IN
    IF n = 0 THEN Err("PANIC") ELSE Ok(bs[n][2])

\* ------------------------------------------------------------ filters.rs
\* enum ParamValue.  A continuous value is held in halves: PContinuous(3) is
\* 1.5.
PContinuous(h) == [t |-> "CONTINUOUS", v |-> h]
PDiscrete(i) == [t |-> "DISCRETE", v |-> i]
PCategorical(k) == [t |-> "CATEGORICAL", v |-> k]

\* `c.get() as i64`: the fraction is dropped, towards zero
AsI64(h) == IF h >= 0 THEN h \div 2 ELSE -((-h) \div 2)

\* ParamValue::to_f64, in halves
ToF64(p) == IF p.t = "CONTINUOUS" THEN p.v ELSE 2 * p.v

\* HashMap: insert and remove on a map held as a function
MapInsert(m, k, v) == [x \in DOMAIN m \cup {k} |-> IF x = k THEN v ELSE m[x]]
MapRemove(m, k) == [x \in DOMAIN m \ {k} |-> m[x]]

\* an observation: its id and its params
Obs(id, param) == [id |-> id, param |-> param]

\* the params domain of the problem the filters are made for
FilterProblem ==
  <<Var("x", Discrete(0, 2), "UNIFORM", <<>>),
    Var("y", Categorical(<<"p", "q">>), "UNIFORM", <<>>)>>

\* DiscreteToContinuousFilter::filter_problem_spec: the indices of the
\* discrete params, from position i on (positions count from 1 here)
RECURSIVE D2CIndices(_, _)
D2CIndices(params_domain, i) ==
  IF i > Len(params_domain) THEN <<>>
  ELSE IF params_domain[i].range.t = "DISCRETE"
    THEN <<i>> \o D2CIndices(params_domain, i + 1)
    ELSE D2CIndices(params_domain, i + 1)

\* OneHotEncodingFilter::filter_problem_spec: for every categorical param the
\* position in the new domain of its first choice, and the number of choices;
\* len is the length of the new domain built so far
RECURSIVE OneHotMappings(_, _, _, _)
OneHotMappings(params_domain, i, len, mappings) ==
  IF i > Len(params_domain) THEN mappings
  ELSE IF params_domain[i].range.t = "CATEGORICAL"
    THEN LET n == Len(params_domain[i].range.choices) IN
      OneHotMappings(params_domain, i + 1, len + n,
                     MapInsert(mappings, len + 1, n))
    ELSE OneHotMappings(params_domain, i + 1, len + 1, mappings)

\* create_filter and filter_problem_spec of DiscreteToContinuousFilterRecipe
CreateD2CFilter ==
  [kind |-> "discrete-to-continuous",
   indices |-> D2CIndices(FilterProblem, 1),
   originals |-> <<>>]

\* create_filter and filter_problem_spec of OneHotEncodingFilterRecipe
CreateOneHotFilter ==
  [kind |-> "one-hot-encoding",
   mappings |-> OneHotMappings(FilterProblem, 1, 0, <<>>),
   originals |-> <<>>]

\* DiscreteToContinuousFilter::filter_ask, the loop over self.indices
RECURSIVE D2CRewrite(_, _)
D2CRewrite(indices, param) ==
  IF indices = <<>> THEN Ok(param)
  ELSE LET i == Head(indices) IN
    IF ~(i <= Len(param)) THEN Err("BUG")
    ELSE IF param[i].t = "CONTINUOUS"
      THEN D2CRewrite(Tail(indices),
                      [param EXCEPT ![i] = PDiscrete(AsI64(param[i].v))])
      ELSE Err("BUG")

\* DiscreteToContinuousFilter::filter_ask: the filter afterwards and the
\* result, the observation as the hook leaves it
D2CFilterAsk(f, obs) ==
  LET originals == MapInsert(f.originals, obs.id, obs.param)
      r == D2CRewrite(f.indices, obs.param)
  IN [filter |-> [f EXCEPT !.originals = originals],
      res |-> IF r.tag = "ok" THEN Ok(Obs(obs.id, r.v)) ELSE r]

\* OneHotEncodingFilter::filter_ask: the index, within the n params from
\* position i, of the greatest (value, index) pair
Selected(param, i, n) ==
  LET last == IF i + n - 1 <= Len(param) THEN i + n - 1 ELSE Len(param)
      k == CHOOSE k \in i..last :
             \A j \in i..last :
               \/ ToF64(param[j]) < ToF64(param[k])
               \/ ToF64(param[j]) = ToF64(param[k]) /\ j <= k
  IN k - i

\* OneHotEncodingFilter::filter_ask, the loop `while i < obs.param.get().len()`
RECURSIVE OneHotRewrite(_, _, _, _)
OneHotRewrite(mappings, param, i, params) ==
  IF i > Len(param) THEN params
  ELSE IF i \in DOMAIN mappings
    THEN OneHotRewrite(mappings, param, i + mappings[i],
                       Append(params,
                              PCategorical(Selected(param, i, mappings[i]))))
    ELSE OneHotRewrite(mappings, param, i + 1, Append(params, param[i]))

\* OneHotEncodingFilter::filter_ask
OneHotFilterAsk(f, obs) ==
  LET originals == MapInsert(f.originals, obs.id, obs.param) IN
    [filter |-> [f EXCEPT !.originals = originals],
     res |-> Ok(Obs(obs.id, OneHotRewrite(f.mappings, obs.param, 1, <<>>)))]

\* variant: the entry stays in the map
OriginalsGet(originals, id) == originals

\* filter_tell: self.originals.remove(&obs.id), the map afterwards
OriginalsRemove(originals, id) == MapRemove(originals, id)

\* variant: the observation keeps the params it came with
ParamKept(params, param) == param

\* filter_tell: `*obs.param.get_mut() = params`
ParamAssigned(params, param) == params

\* DiscreteToContinuousFilter::filter_tell
D2CFilterTell(f, obs) ==
  IF obs.id \in DOMAIN f.originals
    THEN [filter |-> [f EXCEPT !.originals = OriginalsRemove(@, obs.id)],
          res |-> Ok(Obs(obs.id,
                         ParamAssigned(f.originals[obs.id], obs.param)))]
    ELSE [filter |-> f, res |-> Err("OTHER")]

\* OneHotEncodingFilter::filter_tell
OneHotFilterTell(f, obs) ==
  IF obs.id \in DOMAIN f.originals
    THEN [filter |-> [f EXCEPT !.originals = OriginalsRemove(@, obs.id)],
          res |-> Ok(Obs(obs.id,
                         ParamAssigned(f.originals[obs.id], obs.param)))]
    ELSE [filter |-> f, res |-> Err("OTHER")]

\* the trial ids of the observations
TrialIds == {0, 1}

\* the params a solver proposes behind each filter: for the
\* discrete-to-continuous one a continuous x (-0.5 or 1.5) and a choice, or a
\* vector the filter cannot rewrite; for the one-hot one a discrete x and a
\* weight for each choice of y, or a vector that is one weight short
Proposals(kind) ==
  IF kind = "discrete-to-continuous"
    THEN {<<PContinuous(h), PCategorical(k)>> : h \in {-1, 3}, k \in {0, 1}}
           \cup {<<PDiscrete(1), PCategorical(0)>>, <<>>}
    ELSE {<<PDiscrete(0), PContinuous(u), PContinuous(w)>> :
            u \in {0, 1}, w \in {0, 1}}
           \cup {<<PDiscrete(0), PContinuous(1)>>}

\* the params of an observation that comes back from the evaluation: the
\* rewritten ones
Evaluated(kind) ==
  IF kind = "discrete-to-continuous"
    THEN {<<PDiscrete(0), PCategorical(0)>>}
    ELSE {<<PDiscrete(0), PCategorical(1)>>}

\* -------------------------------------- message.rs: the message values
MessageValues ==
  {Message(<<"Problem", "Spec", "Cast">>, [spec |-> s]) : s \in ProblemSpecs}
    \cup {Message(<<"Create", "Problem", "Cast">>,
                  [problem_id |-> p, random_seed |-> r]) :
            p \in 0..MaxOps, r \in Seeds}
    \cup {Message(<<"Drop", "Problem", "Cast">>, [problem_id |-> p]) :
            p \in 0..MaxOps}
    \cup {Message(<<"Create", "Evaluator", "Call">>,
                  [problem_id |-> p, evaluator_id |-> e, params |-> ps]) :
            p \in 0..MaxOps, e \in 0..MaxOps, ps \in ParamsSet}
    \cup {Message(<<"Create", "Evaluator", "Ok", "Reply">>, <<>>)}
    \cup {Message(<<"Drop", "Evaluator", "Cast">>,
                  [problem_id |-> p, evaluator_id |-> e]) :
            p \in 0..MaxOps, e \in 0..MaxOps}
    \cup {Message(<<"Evaluate", "Call">>,
                  [problem_id |-> p, evaluator_id |-> e, next_step |-> n]) :
            p \in 0..MaxOps, e \in 0..MaxOps, n \in MaxSteps}
    \cup {Message(<<"Evaluate", "Ok", "Reply">>,
                  [current_step |-> c, values |-> v]) :
            c \in Steps, v \in Values}
    \cup {Message(<<"Error", "Reply">>, [kind |-> k, message |-> t]) :
            k \in ErrorKinds, t \in {NoneOpt, Some("text")}}

\* ----------------------------------------------------------------- state
VARIABLES
  child,              \* std::process::Child: "none", "running", "exited"
                      \* (terminated, not yet waited for) or "reaped"
  stdin,              \* lines written to the child's stdin, not yet consumed
  stdout,             \* lines the child wrote to its stdout, not yet read
  stderr,             \* what recv printed with eprintln!, one entry per call
  emitted,            \* number of unsolicited lines the child has written
  txOwner,            \* thread holding the Mutex of the sender, or None
  rxOwner,            \* thread holding the Mutex of the receiver, or None
  factory,            \* ExternalProgramProblemFactory: "none", "live", "dropped"
  next_problem_id,    \* ExternalProgramProblemFactory::next_problem_id
  next_evaluator_id,  \* ExternalProgramProblem::next_evaluator_id, per problem
  problems,           \* problem_id of the live ExternalProgramProblem handles
  evaluators,         \* <<problem_id, evaluator_id>> of the live evaluators
  pc,                 \* position of each thread in its current operation
  op,                 \* the operation each thread runs (or has just finished)
  nops,               \* number of operations started
  nwrites,            \* number of lines written to the child's stdin
  events,             \* the messages written to the child and the returns
                      \* of create_evaluator, in order
  builder,            \* VariableBuilder::finish: self
  variable,           \* VariableBuilder::finish: the returned Result<Variable>
  variables,          \* Domain::new: the Vec<VariableBuilder> it is given
  domain,             \* Domain::new: the returned Result<Domain>
  idg,                \* the id generator handed to ask (IdGen, or
                      \* OptunaEvaluator::idg): the next id it will issue
  solver,             \* RandomSolver
  ask_all_steps,      \* RandomSolverFactory::ask_all_steps
  told,               \* current_step of the trial of the most recent tell
  asked,              \* the results of the calls of RandomSolver::ask, in order
  returned,           \* the results of the evaluate calls on one evaluator
  curr_id,            \* OptunaEvaluator::curr_id
  evaluator,          \* OptunaEvaluator::evaluator: the trial id it was created
                      \* for and which create_evaluator call made it
  best_values,        \* OptunaEvaluator::best_values
  budget,             \* the Budget that OptunaEvaluator::evaluate is given
  obs_consumption,    \* consumption of the Budget of each observation
  opc,                \* position in OptunaEvaluator::evaluate
  oret,               \* what OptunaEvaluator::evaluate returned
  created,            \* the ids create_evaluator was called with, in order
  rounds,             \* the evaluations evaluate_once started, in order
  psb,                \* ProblemSpecBuilder
  steps_set,          \* whether ProblemSpecBuilder::evaluation_steps was called
  pspec,              \* ProblemSpecBuilder::finish: the returned Result
                      \* (or a deserialized ProblemSpec)
  required,           \* the Capabilities a problem requires
  capabilities,       \* SolverSpec::capabilities
  verdict,            \* what is_superset and incapables returned
  message,            \* a ProblemMessage value
  json,               \* the JSON object serde_json::to_string wrote for it,
                      \* or the JSON array a Domain is read from
  parsed,             \* what serde_json::from_str made of that object
  filter,             \* DiscreteToContinuousFilter or OneHotEncodingFilter
  pending,            \* the params of the latest filter_ask call of each id
                      \* for which filter_tell has not been called since
  fout,               \* the last hook call: the hook, the id of the
                      \* observation it was given, its params and the result
  xchild,             \* ExternalCommandOptimizer::child
  xstdout,            \* what the child has written and ask has not read yet
  xfailed,            \* the StreamDeserializer over stdout has met an error
  need_tell,          \* ExternalCommandOptimizer::need_tell
  xtold,              \* tell was called since the last ask
  xlog,               \* the lines written to the child's stdin, the calls
                      \* of tell and the parameter vectors read, in order
  xret,               \* what build, ask or tell returned last
  study,              \* StudyRecord: trial_budget() and trials
  bests,              \* Scorer::bests
  scores              \* what best_value(0), best_value(1), .. returned

\* the state of the EPI handles and of the child
epiVars ==
  <<child, stdin, stdout, stderr, emitted, txOwner, rxOwner, factory,
    next_problem_id, next_evaluator_id, problems, evaluators, pc, op, nops,
    nwrites, events>>

finishVars == <<builder, variable>>
domainVars == <<variables, domain>>
solverVars == <<idg, solver, asked, ask_all_steps, told>>
matchVars == <<returned>>
optunaVars ==
  <<curr_id, evaluator, best_values, budget, obs_consumption, opc, oret,
    created, rounds>>

problemVars == <<psb, steps_set, pspec>>
capabilityVars == <<required, capabilities, verdict>>
messageVars == <<message, json, parsed>>
filterVars == <<filter, pending, fout>>
externalVars == <<xchild, xstdout, xfailed, need_tell, xtold, xlog, xret>>
scorerVars == <<study, bests, scores>>
\* the state of the in-process components
hostVars ==
  <<finishVars, domainVars, solverVars, matchVars, optunaVars, problemVars,
    capabilityVars, messageVars, filterVars, externalVars, scorerVars>>

vars == <<epiVars, hostVars>>

PIds == 0..MaxOps

Calls == {"create_evaluator", "evaluate"}
Casts == {"create_problem", "drop_problem", "drop_evaluator"}

IdleOp ==
  [kind |-> "none", pid |-> 0, eid |-> 0, arg |-> 0, line |-> <<>>,
   size |-> -1, wrote |-> 0, seq |-> 0, reads |-> <<>>, rcv |-> NoRes,
   res |-> NoRes]

NewOp(kind, pid, eid, arg) ==
  [IdleOp EXCEPT !.kind = kind, !.pid = pid, !.eid = eid, !.arg = arg]

\* a line as the child wrote it begins with the tag
Tagged(bytes) == StartsWith(bytes, <<Tag>>)

\* number of tagged lines the recv of operation o has taken from stdout
Got(o) == Cardinality({i \in DOMAIN o.reads : Tagged(o.reads[i].bytes)})

Busy(t) == pc[t] # "idle"

\* a thread is inside a method of the given handle (a borrow of the handle)
UsesFactory(t) == Busy(t) /\ op[t].kind = "create_problem"
UsesProblem(t, p) == Busy(t) /\ op[t].kind = "create_evaluator" /\ op[t].pid = p
UsesEvaluator(t, e) ==
  Busy(t) /\ op[t].kind = "evaluate" /\ <<op[t].pid, op[t].eid>> = e

\* ---------------------------------------------------- external_program.rs
\* the message an operation sends
RequestOf(o) ==
  CASE o.kind = "create_problem" -> CreateProblemCast(o.pid, o.arg)
    [] o.kind = "drop_problem" -> DropProblemCast(o.pid)
    [] o.kind = "create_evaluator" -> CreateEvaluatorCall(o.pid, o.eid, <<o.arg>>)
    [] o.kind = "evaluate" -> EvaluateCall(o.pid, o.eid, o.arg)
    [] o.kind = "drop_evaluator" -> DropEvaluatorCast(o.pid, o.eid)

\* the match on the received message in create_factory, create_evaluator
\* and evaluate
MatchReply(kind, m) ==
  CASE kind = "create_factory" ->
         IF m.type = "PROBLEM_SPEC_CAST" THEN Ok(m.spec) ELSE Err("INVALID_INPUT")
    [] kind = "create_evaluator" ->
         IF m.type = "CREATE_EVALUATOR_REPLY" THEN Ok(<<>>)
         ELSE IF m.type = "ERROR_REPLY" THEN Err(m.kind)
         ELSE Err("OTHER")
    [] kind = "evaluate" ->
         IF m.type = "EVALUATE_REPLY" THEN Ok(<<m.current_step, m.values>>)
         ELSE IF m.type = "ERROR_REPLY" THEN Err(m.kind)
         ELSE Err("OTHER")

\* variant: create_evaluator returns a handle whatever the child answered
EvaluatorCreatedOnAnyReply(kind, r) == kind = "create_evaluator"

\* create_evaluator returns an ExternalProgramEvaluator only from the
\* CreateEvaluatorReply arm of its match; the other arms leave by track_panic!
EvaluatorCreated(kind, r) == kind = "create_evaluator" /\ r.tag = "ok"

\* what create_evaluator came to, as recorded in events: "created" when the
\* child answered with CreateEvaluatorReply, "failed" otherwise
Outcome(kind, pid, eid) ==
  [type |-> kind, problem_id |-> pid, evaluator_id |-> eid]

\* variant: only the calls lock the sender, a cast writes without the lock
NeedsTxCallsOnly(kind) == kind \in Calls

\* every operation locks the sender before it writes
NeedsTx(kind) == TRUE

\* variant: the guard of the sender is released as soon as the request is
\* flushed, before the receiver is locked
HoldsTxUntilFlushed(kind) == FALSE

\* the guard of the sender lives until the method returns: a call still
\* holds it while it waits for the reply, a cast returns right after send
HoldsTxAfterSend(kind) == kind \in Calls

\* variant: a call that got an error goes back to send its request again
AfterRecvRetry(r) == IF r.tag = "err" THEN "lock_tx" ELSE "idle"

\* every arm of the match on the reply leaves the method: Ok(..) or
\* track_panic!, none goes back to send or recv
AfterRecv(r) == "idle"

\* variant: the counter is read but the incremented value is not stored
FetchAddNoStore(c) == c

\* AtomicU64::fetch_add(1, SeqCst): the value of the counter afterwards (the
\* value it returns is the one before)
FetchAdd(c) == c + 1

\* Child::kill: fails only when the exit status was already collected
KillOk(c) == c \in {"running", "exited"}

\* Drop for ExternalProgramProblemFactory: kill, then wait if kill was Ok
DropChild(c) == IF KillOk(c) THEN "reaped" ELSE c

\* a write to the child's stdin (write + flush) succeeds while the child runs
WriteOk == child = "running"

\* read_line is at end of file: nothing buffered and the child is gone
AtEof == stdout = <<>> /\ child \in {"exited", "reaped"}

\* -------------------------------------------------------------- initial
InitCommon ==
  /\ stdin = <<>>
  /\ stdout = <<>>
  /\ stderr = <<>>
  /\ emitted = 0
  /\ txOwner = None
  /\ rxOwner = None
  /\ pc = [t \in Threads |-> "idle"]
  /\ op = [t \in Threads |-> IdleOp]
  /\ nops = 0
  /\ nwrites = 0

\* the in-process components before any call
FinishIdle == builder = NoRes /\ variable = NoRes
DomainIdle == variables = <<>> /\ domain = NoRes
SolverIdle ==
  /\ idg = 0 /\ solver = NoRes /\ asked = <<>>
  /\ ask_all_steps = FALSE /\ told = NoneOpt
MatchIdle == returned = <<>>
\* OptunaProblem::create_evaluator
OptunaIdle ==
  /\ curr_id = NoneOpt
  /\ evaluator = NoneOpt
  /\ best_values = NoneOpt
  /\ budget = NoRes
  /\ obs_consumption = [i \in 0..MaxRounds |-> 0]
  /\ opc = "idle"
  /\ oret = NoRes
  /\ created = <<>>
  /\ rounds = <<>>

\* ProblemSpecBuilder::new
ProblemIdle ==
  psb = ProblemSpecBuilderNew /\ steps_set = FALSE /\ pspec = NoRes

\* no requirements computed, a solver without capabilities
CapabilityIdle ==
  required = NoneOpt /\ capabilities = CapabilitiesEmpty /\ verdict = NoneOpt

\* no message
MessageIdle == message = NoneOpt /\ json = NoneOpt /\ parsed = NoRes

\* no filter
FilterIdle == filter = NoRes /\ pending = <<>> /\ fout = NoRes

\* ExternalCommandOptimizerBuilder::build was not called
ExternalIdle ==
  /\ xchild = "none"
  /\ xstdout = <<>>
  /\ xfailed = FALSE
  /\ need_tell = FALSE
  /\ xtold = FALSE
  /\ xlog = <<>>
  /\ xret = NoRes

\* no study record
ScorerIdle == study = NoRes /\ bests = NoRes /\ scores = <<>>

HostIdle ==
  /\ FinishIdle /\ DomainIdle /\ SolverIdle /\ MatchIdle /\ OptunaIdle
  /\ ProblemIdle /\ CapabilityIdle /\ MessageIdle /\ FilterIdle
  /\ ExternalIdle /\ ScorerIdle

\* before create_factory
InitLaunch ==
  /\ HostIdle
  /\ InitCommon
  /\ child = "none"
  /\ factory = "none"
  /\ next_problem_id = 0
  /\ next_evaluator_id = [p \in PIds |-> 0]
  /\ problems = {}
  /\ evaluators = {}
  /\ events = <<>>

\* a factory, its problem 0 and that problem's evaluator 0, and what was
\* written and returned when they were made
Init ==
  /\ HostIdle
  /\ InitCommon
  /\ child = "running"
  /\ factory = "live"
  /\ next_problem_id = 1
  /\ next_evaluator_id = [p \in PIds |-> IF p = 0 THEN 1 ELSE 0]
  /\ problems = {0}
  /\ evaluators = {<<0, 0>>}
  /\ \E seed \in Seeds, params \in ParamsSet :
       events = <<CreateProblemCast(0, seed),
                  CreateEvaluatorCall(0, 0, params),
                  Outcome("created", 0, 0)>>

\* ------------------------------------------- operations of the handles
\* Threads are interchangeable: a new operation is run by the first thread
\* that is not inside one.
Start(t, o) ==
  /\ pc[t] = "idle"
  /\ \A u \in Threads : u < t => pc[u] # "idle"
  /\ nops < MaxOps
  /\ nops' = nops + 1
  /\ pc' = [pc EXCEPT ![t] = "lock_tx"]
  /\ op' = [op EXCEPT ![t] = o]

\* create_problem, up to the lock: fetch_add on next_problem_id
CreateProblemBegin(t) ==
  /\ UNCHANGED <<hostVars, events>>
  /\ factory = "live"
  /\ \E seed \in Seeds :
       Start(t, NewOp("create_problem", next_problem_id, 0, seed))
  /\ next_problem_id' = FetchAdd(next_problem_id)
  /\ UNCHANGED <<child, stdin, stdout, stderr, emitted, txOwner, rxOwner,
                 factory, next_evaluator_id, problems, evaluators, nwrites>>

\* create_evaluator, up to the lock: fetch_add on next_evaluator_id
CreateEvaluatorBegin(t) ==
  /\ UNCHANGED <<hostVars, events>>
  /\ \E p \in problems, params \in ParamsSet :
       /\ Start(t, NewOp("create_evaluator", p, next_evaluator_id[p], params[1]))
       /\ next_evaluator_id' =
            [next_evaluator_id EXCEPT ![p] = FetchAdd(next_evaluator_id[p])]
  /\ UNCHANGED <<child, stdin, stdout, stderr, emitted, txOwner, rxOwner,
                 factory, next_problem_id, problems, evaluators, nwrites>>

\* evaluate(&mut self, max_step), up to the lock
EvaluateBegin(t) ==
  /\ UNCHANGED <<hostVars, events>>
  /\ \E e \in evaluators, max_step \in MaxSteps :
       /\ \A u \in Threads : ~UsesEvaluator(u, e)
       /\ Start(t, NewOp("evaluate", e[1], e[2], max_step))
  /\ UNCHANGED <<child, stdin, stdout, stderr, emitted, txOwner, rxOwner,
                 factory, next_problem_id, next_evaluator_id, problems,
                 evaluators, nwrites>>

\* Drop for ExternalProgramProblem, up to the lock
DropProblemBegin(t) ==
  /\ UNCHANGED <<hostVars, events>>
  /\ \E p \in problems :
       /\ \A u \in Threads : ~UsesProblem(u, p)
       /\ Start(t, NewOp("drop_problem", p, 0, 0))
       /\ problems' = problems \ {p}
  /\ UNCHANGED <<child, stdin, stdout, stderr, emitted, txOwner, rxOwner,
                 factory, next_problem_id, next_evaluator_id, evaluators,
                 nwrites>>

\* Drop for ExternalProgramEvaluator, up to the lock
DropEvaluatorBegin(t) ==
  /\ UNCHANGED <<hostVars, events>>
  /\ \E e \in evaluators :
       /\ \A u \in Threads : ~UsesEvaluator(u, e)
       /\ Start(t, NewOp("drop_evaluator", e[1], e[2], 0))
       /\ evaluators' = evaluators \ {e}
  /\ UNCHANGED <<child, stdin, stdout, stderr, emitted, txOwner, rxOwner,
                 factory, next_problem_id, next_evaluator_id, problems,
                 nwrites>>

\* Drop for ExternalProgramProblemFactory: kill the child and wait for it
DropFactory(t) ==
  /\ UNCHANGED <<hostVars, events>>
  /\ pc[t] = "idle"
  /\ factory = "live"
  /\ \A u \in Threads : ~UsesFactory(u)
  /\ factory' = "dropped"
  /\ child' = DropChild(child)
  /\ stdin' = <<>>
  /\ UNCHANGED <<stdout, stderr, emitted, txOwner, rxOwner, next_problem_id,
                 next_evaluator_id, problems, evaluators, pc, op, nops,
                 nwrites>>

\* self.tx.lock() and tx.send(&m), and for a cast the return of the method
LockTxSend(t) ==
  /\ UNCHANGED hostVars
  /\ pc[t] = "lock_tx"
  /\ NeedsTx(op[t].kind) => txOwner \in {None, t}
  /\ LET o == op[t]
         ok == WriteOk
         call == ok /\ o.kind \in Calls
         res == IF o.kind = "create_problem"
                  THEN (IF ok THEN Ok(o.pid) ELSE Err("FROM_IO"))
                ELSE IF o.kind \in Calls
                  THEN (IF ok THEN NoRes ELSE Err("FROM_IO"))
                ELSE Ok(<<>>)
     IN
       /\ stdin' = IF ok
                     THEN Append(stdin, [bytes |-> Frame(RequestOf(o)),
                                         seq |-> nwrites + 1])
                     ELSE stdin
       /\ nwrites' = IF ok THEN nwrites + 1 ELSE nwrites
       /\ events' = IF ok THEN Append(events, RequestOf(o))
                    ELSE IF o.kind = "create_evaluator"
                      THEN Append(events, Outcome("failed", o.pid, o.eid))
                    ELSE events
       /\ op' = [op EXCEPT ![t] =
                   [o EXCEPT !.wrote = IF ok THEN o.wrote + 1 ELSE o.wrote,
                             !.seq = IF ok THEN nwrites + 1 ELSE o.seq,
                             !.res = res]]
       /\ pc' = [pc EXCEPT ![t] = IF call THEN "lock_rx" ELSE "idle"]
       /\ txOwner' = IF ~NeedsTx(o.kind) THEN txOwner
                     ELSE IF call /\ HoldsTxAfterSend(o.kind) THEN t
                     ELSE None
       /\ problems' = IF o.kind = "create_problem" /\ ok
                        THEN problems \cup {o.pid}
                        ELSE problems
  /\ UNCHANGED <<child, stdout, stderr, emitted, rxOwner, factory,
                 next_problem_id, next_evaluator_id, evaluators, nops>>

\* self.rx.lock(), and the entry of recv: let mut line = String::new()
LockRx(t) ==
  /\ UNCHANGED <<hostVars, events>>
  /\ pc[t] = "lock_rx"
  /\ rxOwner = None
  /\ rxOwner' = t
  /\ pc' = [pc EXCEPT ![t] = "recv"]
  /\ UNCHANGED <<child, stdin, stdout, stderr, emitted, txOwner, factory,
                 next_problem_id, next_evaluator_id, problems, evaluators, op,
                 nops, nwrites>>

\* One iteration of the loop of MessageReceiver::recv and, when recv
\* returns, the rest of the calling method (the match on the message, the
\* construction of the handle, the release of the guards).
RecvIter(t) ==
  /\ UNCHANGED hostVars
  /\ pc[t] = "recv"
  /\ stdout # <<>> \/ AtEof
  /\ LET o == op[t]
         has == stdout # <<>>
         data == IF has THEN Head(stdout).bytes ELSE <<>>
         line == LoopLine(o.line) \o data
         rd == IF has
                 THEN Append(o.reads, [re |-> Head(stdout).re, bytes |-> data])
                 ELSE o.reads
         o1 == [o EXCEPT !.line = line, !.size = Len(data), !.reads = rd]
     IN
       /\ stdout' = IF has THEN Tail(stdout) ELSE stdout
       /\ IF ~StartsWith(line, <<Tag>>)
            THEN /\ Len(stderr) < MaxErr
                 /\ stderr' = Append(stderr, line \o <<NL>>)
                 /\ op' = [op EXCEPT ![t] = o1]
                 /\ UNCHANGED <<pc, txOwner, rxOwner, factory, evaluators,
                                events>>
            ELSE LET p == FromStr(ParseInput(line))
                     r == IF p.tag = "err" THEN p ELSE MatchReply(o.kind, p.v)
                     done == AfterRecv(r) = "idle"
                 IN
                   /\ stderr' = stderr
                   /\ op' = [op EXCEPT ![t] =
                               [o1 EXCEPT !.rcv = p, !.res = r,
                                          !.line = IF done THEN <<>> ELSE line,
                                          !.size = IF done THEN -1 ELSE Len(data)]]
                   /\ pc' = [pc EXCEPT ![t] = AfterRecv(r)]
                   /\ txOwner' = IF txOwner = t /\ done THEN None ELSE txOwner
                   /\ rxOwner' = IF rxOwner = t /\ done THEN None ELSE rxOwner
                   /\ factory' = IF o.kind = "create_factory" /\ r.tag = "ok"
                                   THEN "live"
                                   ELSE factory
                   /\ evaluators' =
                        IF EvaluatorCreated(o.kind, r)
                          THEN evaluators \cup {<<o.pid, o.eid>>}
                          ELSE evaluators
                   /\ events' =
                        IF o.kind # "create_evaluator" THEN events
                        ELSE IF r.tag = "ok"
                          THEN Append(events, Outcome("created", o.pid, o.eid))
                        ELSE Append(events, Outcome("failed", o.pid, o.eid))
  /\ UNCHANGED <<child, stdin, emitted, next_problem_id, next_evaluator_id,
                 problems, nops, nwrites>>

\* create_factory up to recv: Command::spawn with piped stdin and stdout
CreateFactorySpawn(t) ==
  /\ UNCHANGED <<hostVars, events>>
  /\ pc[t] = "idle"
  /\ child = "none"
  /\ op[t].kind = "none"
  /\ \A u \in Threads : op[u].kind # "create_factory"
  /\ \E spawned \in BOOLEAN :
       /\ child' = IF spawned THEN "running" ELSE child
       /\ pc' = [pc EXCEPT ![t] = IF spawned THEN "recv" ELSE "idle"]
       /\ op' = [op EXCEPT ![t] =
                   [NewOp("create_factory", 0, 0, 0) EXCEPT
                      !.res = IF spawned THEN NoRes ELSE Err("FROM_IO")]]
  /\ UNCHANGED <<stdin, stdout, stderr, emitted, txOwner, rxOwner, factory,
                 next_problem_id, next_evaluator_id, problems, evaluators,
                 nops, nwrites>>

\* ------------------------------------------------------------ the child
LogLine == <<Txt("log"), NL>>
BadLine == <<Tag, Txt("{oops"), NL>>

ChildLines == {LogLine, BadLine} \cup {Frame(m) : m \in ChildMessages}

\* the child program writes a line of its own accord (launch)
ChildEmit ==
  /\ UNCHANGED <<hostVars, events>>
  /\ child = "running"
  /\ emitted < MaxLines
  /\ \E l \in ChildLines :
       stdout' = Append(stdout, [bytes |-> l, re |-> 0])
  /\ emitted' = emitted + 1
  /\ UNCHANGED <<child, stdin, stderr, txOwner, rxOwner, factory,
                 next_problem_id, next_evaluator_id, problems, evaluators, pc,
                 op, nops, nwrites>>

\* the child takes the next line of its stdin; a call is answered with at
\* most MaxLogLines log lines (over the run) and then one tagged message
ChildAnswer ==
  /\ UNCHANGED <<hostVars, events>>
  /\ child = "running"
  /\ stdin # <<>>
  /\ LET rq == Head(stdin)
         m == rq.bytes[2].m
     IN
       /\ stdin' = Tail(stdin)
       /\ IF m.type \in {"CREATE_EVALUATOR_CALL", "EVALUATE_CALL"}
            THEN \E n \in 0..(MaxLogLines - emitted), reply \in Replies :
                   /\ stdout' = stdout
                        \o [i \in 1..n |-> [bytes |-> LogLine, re |-> rq.seq]]
                        \o <<[bytes |-> Frame(reply), re |-> rq.seq]>>
                   /\ emitted' = emitted + n
            ELSE UNCHANGED <<stdout, emitted>>
  /\ UNCHANGED <<child, stderr, txOwner, rxOwner, factory, next_problem_id,
                 next_evaluator_id, problems, evaluators, pc, op, nops,
                 nwrites>>

\* the child terminates by itself
ChildExit ==
  /\ UNCHANGED <<hostVars, events>>
  /\ child = "running"
  /\ child' = "exited"
  /\ stdin' = <<>>
  /\ UNCHANGED <<stdout, stderr, emitted, txOwner, rxOwner, factory,
                 next_problem_id, next_evaluator_id, problems, evaluators, pc,
                 op, nops, nwrites>>

\* ------------------------------------------------------------ domain.rs
\* builder.finish()
FinishCall ==
  /\ builder # NoRes
  /\ variable = NoRes
  /\ variable' = Finish(builder)
  /\ UNCHANGED <<builder, domainVars, solverVars, matchVars, optunaVars, problemVars, capabilityVars, messageVars, filterVars, externalVars, scorerVars, epiVars>>

\* a builder is added to the vector Domain::new will be given
\* (ProblemSpecBuilder::param, ProblemSpecBuilder::value)
PushBuilder ==
  /\ domain = NoRes
  /\ Len(variables) < MaxVars
  /\ \E b \in DomainBuilders : variables' = Append(variables, b)
  /\ UNCHANGED <<domain, finishVars, solverVars, matchVars, optunaVars, problemVars, capabilityVars, messageVars, filterVars, externalVars, scorerVars, epiVars>>

\* Domain::new(variables)
DomainNewCall ==
  /\ domain = NoRes
  /\ domain' = DomainNew(variables)
  /\ UNCHANGED <<variables, finishVars, solverVars, matchVars, optunaVars, problemVars, capabilityVars, messageVars, filterVars, externalVars, scorerVars, epiVars>>

\* ------------------------------------------------------------- random.rs
\* solver.ask(&mut idg)
Ask ==
  /\ solver # NoRes
  /\ Len(asked) < MaxAsks
  /\ \E params \in GenParams(SolverProblem.params_domain) :
       LET r == RandomSolverAsk(solver, idg, params) IN
         /\ asked' = Append(asked, r.res)
         /\ idg' = r.idg
  /\ UNCHANGED <<solver, ask_all_steps, told, finishVars, domainVars,
                 matchVars, optunaVars, problemVars, capabilityVars, messageVars, filterVars, externalVars, scorerVars, epiVars>>

\* solver.tell(trial), for a trial that ask has returned
Tell ==
  /\ solver # NoRes
  /\ \E i \in DOMAIN asked, c \in 0..EvaluationSteps, v \in Values :
       /\ asked[i].tag = "ok"
       /\ solver' = RandomSolverTell(solver, [id |-> asked[i].v.id,
                                              values |-> v,
                                              current_step |-> c])
       /\ told' = Some(c)
  /\ UNCHANGED <<idg, asked, ask_all_steps, finishVars, domainVars, matchVars, optunaVars, problemVars, capabilityVars, messageVars, filterVars, externalVars, scorerVars, epiVars>>

\* ------------------------------- external_program.rs, evaluate on a reply
\* ExternalProgramEvaluator::evaluate from the message recv hands it: the
\* match on the reply.  max_step goes into the request only.
EvaluateOnReply ==
  /\ Len(returned) < MaxEvals
  /\ \E m \in EvaluateAnswers :
       returned' = Append(returned, MatchReply("evaluate", m))
  /\ UNCHANGED <<finishVars, domainVars, solverVars, optunaVars, problemVars, capabilityVars, messageVars, filterVars, externalVars, scorerVars, epiVars>>

\* ------------------------------------------------------ problem_optuna.rs
\* OptunaEvaluator::evaluate up to the loop: the solver is created
OptunaEvaluateBegin ==
  /\ opc = "idle"
  /\ \E amount \in 0..MaxBudget, solver_ok \in BOOLEAN :
       /\ budget' = [amount |-> amount, consumption |-> 0]
       /\ opc' = IF solver_ok THEN "loop" ELSE "done"
       /\ oret' = IF solver_ok THEN NoRes ELSE Err("OTHER")
  /\ UNCHANGED <<curr_id, evaluator, best_values, obs_consumption, created,
                 rounds, finishVars, domainVars, solverVars, matchVars,
                 problemVars, capabilityVars, messageVars, filterVars, externalVars, scorerVars, epiVars>>

\* one round of evaluate_once and what evaluate does with its result.  The
\* solver answers the ask with a fresh id of the generator or with an id it
\* has given before; the evaluation consumes d of the observation's budget.
EvaluateOnce(fail, id, fresh, d, v) ==
  LET asked_ok == fail # "ask"
      is_new == Some(id) # curr_id
      create_ok == fail # "create_evaluator"
      ev == IF is_new /\ create_ok
              THEN Some([id |-> id, inst |-> Len(created) + 1])
              ELSE evaluator
      reached == asked_ok /\ (is_new => create_ok)
      eval_ok == reached /\ fail # "evaluate"
      old == obs_consumption[id]
      new == IF eval_ok THEN old + d ELSE old
      delta == DeltaConsumption(new, old)
      ok == eval_ok /\ fail # "tell"
  IN
    /\ idg' = IF asked_ok /\ fresh THEN idg + 1 ELSE idg
    /\ curr_id' = IF asked_ok /\ is_new THEN Some(id) ELSE curr_id
    /\ created' = IF asked_ok /\ is_new THEN Append(created, id) ELSE created
    /\ evaluator' = IF asked_ok THEN ev ELSE evaluator
    /\ rounds' = IF reached
                   THEN Append(rounds,
                          [id |-> id, inst |-> ev.v.inst,
                           at |-> budget.consumption, old |-> old,
                           new |-> new,
                           charged |-> IF ok THEN Some(delta) ELSE NoneOpt])
                   ELSE rounds
    /\ obs_consumption' = IF ok THEN [obs_consumption EXCEPT ![id] = new]
                          ELSE obs_consumption
    /\ budget' = IF ok
                   THEN [budget EXCEPT !.consumption = budget.consumption + delta]
                   ELSE budget
    /\ best_values' = IF ok THEN BestValues(best_values, v) ELSE best_values
    /\ opc' = IF ok THEN "loop" ELSE "done"
    /\ oret' = IF ok THEN NoRes ELSE Err("OTHER")

\* OptunaEvaluator::evaluate, one pass of `while !budget.is_consumed()`, and
\* the return after the loop
OptunaEvaluateLoop ==
  /\ opc = "loop"
  /\ IF IsConsumed(budget)
       THEN /\ opc' = "done"
            /\ oret' = IF best_values.tag = "none" THEN Err("BUG")
                       ELSE Ok(best_values.v)
            /\ UNCHANGED <<idg, curr_id, evaluator, best_values, budget,
                           obs_consumption, created, rounds>>
       ELSE /\ Len(rounds) < MaxRounds
            /\ \E fail \in OnceFailures, fresh \in BOOLEAN, d \in 0..MaxDelta,
                  v \in Values :
                 \E id \in (IF fresh THEN {idg} ELSE 0..(idg - 1)) :
                   EvaluateOnce(fail, id, fresh, d, v)
  /\ UNCHANGED <<solver, asked, ask_all_steps, told, finishVars, domainVars,
                 matchVars, problemVars, capabilityVars, messageVars, filterVars, externalVars, scorerVars, epiVars>>

\* The same pass of `while !budget.is_consumed()` with the histories rounds
\* and created left as they are, so that the loop may run without end: the
\* solver's answer, the inner evaluation and the tell are inputs as in
\* OptunaEvaluateLoop.  idg counts the ids the generator has given and stops
\* at MaxRounds.
BudgetLoop ==
  /\ opc = "loop"
  /\ IF IsConsumed(budget)
       THEN /\ opc' = "done"
            /\ oret' = IF best_values.tag = "none" THEN Err("BUG")
                       ELSE Ok(best_values.v)
            /\ UNCHANGED <<idg, curr_id, evaluator, best_values, budget,
                           obs_consumption>>
       ELSE \E fail \in OnceFailures, fresh \in BOOLEAN, d \in 0..MaxDelta,
               v \in Values :
              \E id \in (IF fresh THEN {idg} \cap 0..(MaxRounds - 1)
                         ELSE 0..(idg - 1)) :
                LET asked_ok == fail # "ask"
                    is_new == Some(id) # curr_id
                    create_ok == fail # "create_evaluator"
                    eval_ok == /\ asked_ok
                               /\ is_new => create_ok
                               /\ fail # "evaluate"
                    old == obs_consumption[id]
                    new == IF eval_ok THEN old + d ELSE old
                    delta == DeltaConsumption(new, old)
                    ok == eval_ok /\ fail # "tell"
                IN
                  /\ idg' = IF asked_ok /\ fresh THEN idg + 1 ELSE idg
                  /\ curr_id' = IF asked_ok /\ is_new THEN Some(id)
                                ELSE curr_id
                  /\ evaluator' = IF asked_ok /\ is_new /\ create_ok
                                    THEN Some([id |-> id, inst |-> 1])
                                    ELSE evaluator
                  /\ obs_consumption' =
                       IF ok THEN [obs_consumption EXCEPT ![id] = new]
                       ELSE obs_consumption
                  /\ budget' =
                       IF ok
                         THEN [budget EXCEPT
                                 !.consumption = budget.consumption + delta]
                         ELSE budget
                  /\ best_values' = IF ok THEN BestValues(best_values, v)
                                    ELSE best_values
                  /\ opc' = IF ok THEN "loop" ELSE "done"
                  /\ oret' = IF ok THEN NoRes ELSE Err("OTHER")
  /\ UNCHANGED <<created, rounds, solver, asked, ask_all_steps, told,
                 finishVars, domainVars, matchVars, problemVars,
                 capabilityVars, messageVars, filterVars, externalVars, scorerVars, epiVars>>

\* ------------------------------------------------------------ problem.rs
\* ProblemSpecBuilder::param
BuilderParam ==
  /\ pspec = NoRes
  /\ Len(psb.params) < MaxParams
  /\ \E var \in ProblemBuilders :
       psb' = [psb EXCEPT !.params = Append(@, var)]
  /\ UNCHANGED <<steps_set, pspec, finishVars, domainVars, solverVars,
                 matchVars, optunaVars, capabilityVars, messageVars, filterVars, externalVars, scorerVars, epiVars>>

\* ProblemSpecBuilder::value
BuilderValue ==
  /\ pspec = NoRes
  /\ Len(psb.values) < MaxParams
  /\ \E var \in ProblemBuilders :
       psb' = [psb EXCEPT !.values = Append(@, var)]
  /\ UNCHANGED <<steps_set, pspec, finishVars, domainVars, solverVars,
                 matchVars, optunaVars, capabilityVars, messageVars, filterVars, externalVars, scorerVars, epiVars>>

\* ProblemSpecBuilder::evaluation_steps
BuilderEvaluationSteps ==
  /\ pspec = NoRes
  /\ \E steps \in 0..EvaluationSteps :
       psb' = [psb EXCEPT !.evaluation_steps = steps]
  /\ steps_set' = TRUE
  /\ UNCHANGED <<pspec, finishVars, domainVars, solverVars, matchVars,
                 optunaVars, capabilityVars, messageVars, filterVars, externalVars, scorerVars, epiVars>>

\* ProblemSpecBuilder::finish
BuilderFinish ==
  /\ pspec = NoRes
  /\ pspec' = ProblemSpecBuilderFinish(psb)
  /\ UNCHANGED <<psb, steps_set, finishVars, domainVars, solverVars,
                 matchVars, optunaVars, capabilityVars, messageVars, filterVars, externalVars, scorerVars, epiVars>>

\* ---------------------------------------------------- Capabilities
\* spec.requirements()
RequirementsCall ==
  /\ pspec.tag = "ok"
  /\ required = NoneOpt
  /\ required' = Some(Requirements(pspec.v))
  /\ UNCHANGED <<capabilities, verdict, finishVars, domainVars, solverVars,
                 matchVars, optunaVars, problemVars, messageVars, filterVars, externalVars, scorerVars, epiVars>>

\* capabilities.is_superset(&required) and capabilities.incapables(&required)
CapabilityCheck ==
  /\ required # NoneOpt
  /\ verdict = NoneOpt
  /\ verdict' = Some([is_superset |-> IsSuperset(capabilities, required.v),
                      incapables |-> Incapables(capabilities, required.v)])
  /\ UNCHANGED <<required, capabilities, finishVars, domainVars, solverVars,
                 matchVars, optunaVars, problemVars, messageVars, filterVars, externalVars, scorerVars, epiVars>>

\* ------------------------------------------------------------ message.rs
\* serde_json::to_string(&message)
MessageToJson ==
  /\ message # NoneOpt
  /\ json = NoneOpt
  /\ json' = Some(ToJson(message))
  /\ UNCHANGED <<message, parsed, finishVars, domainVars, solverVars,
                 matchVars, optunaVars, problemVars, capabilityVars, filterVars, externalVars, scorerVars, epiVars>>

\* serde_json::from_str(&json)
MessageFromJson ==
  /\ json # NoneOpt
  /\ parsed = NoRes
  /\ parsed' = FromJson(json.v)
  /\ UNCHANGED <<message, json, finishVars, domainVars, solverVars, matchVars,
                 optunaVars, problemVars, capabilityVars, filterVars, externalVars, scorerVars, epiVars>>

\* serde_json::from_str::<Domain>(&json)
DomainFromJsonCall ==
  /\ message = NoneOpt
  /\ json # NoneOpt
  /\ parsed = NoRes
  /\ parsed' = DomainFromJson(json.v)
  /\ UNCHANGED <<message, json, finishVars, domainVars, solverVars, matchVars,
                 optunaVars, problemVars, capabilityVars, filterVars, externalVars, scorerVars, epiVars>>

\* --------------------------------------------------- external_command.rs
\* the optimizer exists: build has written the problem space and returned it
XBuilt == xlog # <<>>

\* a write to the child's stdin succeeds while the child has it open
XWriteOk == xchild = "running"

\* what build, ask or tell returned
XReturn(call, res) == [call |-> call, res |-> res]

\* ExternalCommandOptimizerBuilder::build: spawn, then the problem space and
\* a newline are written to the child's stdin, then stdout is wrapped.  The
\* child may be gone before the line is written.
XBuild ==
  /\ xchild = "none"
  /\ xret = NoRes
  /\ \E spawned \in BOOLEAN, alive \in BOOLEAN :
       /\ xchild' = IF ~spawned THEN xchild
                    ELSE IF alive THEN "running" ELSE "exited"
       /\ xlog' = IF spawned /\ alive THEN <<"write_space">> ELSE xlog
       /\ xret' = XReturn("build", IF spawned /\ alive THEN Ok("optimizer")
                                   ELSE Err("FROM_IO"))
  /\ UNCHANGED <<xstdout, xfailed, need_tell, xtold, finishVars, domainVars,
                 solverVars, matchVars, optunaVars, problemVars,
                 capabilityVars, messageVars, filterVars, scorerVars, epiVars>>

\* ExternalCommandOptimizer::ask.  With need_tell an empty object and a
\* newline are written first; then the next value of the stream is taken:
\* the end of the stream and a value that is no Vec<f64> are errors, and a
\* stream that has met an error gives no further value.  The call waits
\* while the child runs and has written nothing.
XAsk ==
  /\ XBuilt
  /\ Len(xlog) < MaxAsks + MaxLines
  /\ xstdout # <<>> \/ xchild = "exited" \/ xfailed
  /\ xtold' = FALSE
  /\ IF need_tell /\ ~XWriteOk
       THEN /\ xret' = XReturn("ask", Err("IO_ERROR"))
            /\ UNCHANGED <<xstdout, xfailed, need_tell, xlog>>
       ELSE LET written == IF need_tell THEN Append(xlog, "write_empty")
                           ELSE xlog
            IN IF xfailed \/ xstdout = <<>>
                 THEN /\ xret' = XReturn("ask", Err("IO_ERROR"))
                      /\ xlog' = written
                      /\ UNCHANGED <<xstdout, xfailed, need_tell>>
               ELSE IF Head(xstdout) # "vector"
                 THEN /\ xret' = XReturn("ask", Err("INVALID_INPUT"))
                      /\ xfailed' = TRUE
                      /\ xlog' = written
                      /\ UNCHANGED <<xstdout, need_tell>>
               ELSE /\ xstdout' = Tail(xstdout)
                    /\ need_tell' = TRUE
                    /\ xlog' = Append(written, "read")
                    /\ xret' = XReturn("ask", Ok("obs"))
                    /\ UNCHANGED xfailed
  /\ UNCHANGED <<xchild, finishVars, domainVars, solverVars, matchVars,
                 optunaVars, problemVars, capabilityVars, messageVars,
                 filterVars, scorerVars, epiVars>>

\* ExternalCommandOptimizer::tell on an observation that ask has returned:
\* need_tell is cleared, then the observation and a newline are written
XTell ==
  /\ XBuilt
  /\ Len(xlog) < MaxAsks + MaxLines
  /\ ~xtold
  /\ \E i \in DOMAIN xlog : xlog[i] = "read"
  /\ need_tell' = FALSE
  /\ xtold' = TRUE
  /\ xlog' = IF XWriteOk THEN xlog \o <<"tell", "write_obs">>
             ELSE Append(xlog, "tell")
  /\ xret' = XReturn("tell", IF XWriteOk THEN Ok(<<>>) ELSE Err("IO_ERROR"))
  /\ UNCHANGED <<xchild, xstdout, xfailed, finishVars, domainVars, solverVars,
                 matchVars, optunaVars, problemVars, capabilityVars,
                 messageVars, filterVars, scorerVars, epiVars>>

\* the child writes a parameter vector, or something that is none
XChildWrite ==
  /\ xchild = "running"
  /\ Len(xstdout) < MaxLines
  /\ \E item \in {"vector", "garbage"} : xstdout' = Append(xstdout, item)
  /\ UNCHANGED <<xchild, xfailed, need_tell, xtold, xlog, xret, finishVars,
                 domainVars, solverVars, matchVars, optunaVars, problemVars,
                 capabilityVars, messageVars, filterVars, scorerVars, epiVars>>

\* the child closes its pipes and terminates; what it has written stays
\* readable
XChildExit ==
  /\ xchild = "running"
  /\ xchild' = "exited"
  /\ UNCHANGED <<xstdout, xfailed, need_tell, xtold, xlog, xret, finishVars,
                 domainVars, solverVars, matchVars, optunaVars, problemVars,
                 capabilityVars, messageVars, filterVars, scorerVars, epiVars>>

\* -------------------------------------------------------- record/study.rs
\* the study appends the record of a trial to StudyRecord::trials
RecordTrial ==
  /\ study # NoRes
  /\ bests = NoRes
  /\ Len(study.trials) < MaxTrials
  /\ \E trial \in TrialRecords :
       study' = [study EXCEPT !.trials = Append(@, trial)]
  /\ UNCHANGED <<bests, scores, finishVars, domainVars, solverVars, matchVars,
                 optunaVars, problemVars, capabilityVars, messageVars,
                 filterVars, externalVars, epiVars>>

\* study.scorer()
ScorerCall ==
  /\ study # NoRes
  /\ bests = NoRes
  /\ bests' = Ok(ScorerNew(study))
  /\ UNCHANGED <<study, scores, finishVars, domainVars, solverVars, matchVars,
                 optunaVars, problemVars, capabilityVars, messageVars,
                 filterVars, externalVars, epiVars>>

\* scorer.best_value(budget), for the budgets 0, 1, .. in turn
BestValueCall ==
  /\ bests # NoRes
  /\ Len(scores) <= MaxTrials
  /\ scores' = Append(scores, BestValue(bests.v, Len(scores)))
  /\ UNCHANGED <<study, bests, finishVars, domainVars, solverVars, matchVars,
                 optunaVars, problemVars, capabilityVars, messageVars,
                 filterVars, externalVars, epiVars>>

\* ------------------------------------------------------------ filters.rs
\* filter.filter_ask(rng, &mut obs) on an observation of the solver
FilterAskCall ==
  /\ filter # NoRes
  /\ \E id \in TrialIds, param \in Proposals(filter.kind) :
       LET r == IF filter.kind = "discrete-to-continuous"
                  THEN D2CFilterAsk(filter, Obs(id, param))
                  ELSE OneHotFilterAsk(filter, Obs(id, param))
       IN /\ filter' = r.filter
          /\ fout' = [hook |-> "ask", id |-> id, param |-> param,
                      res |-> r.res]
          /\ pending' = MapInsert(pending, id, param)
  /\ UNCHANGED <<finishVars, domainVars, solverVars, matchVars, optunaVars,
                 problemVars, capabilityVars, messageVars, externalVars, scorerVars, epiVars>>

\* filter.filter_tell(rng, &mut obs) on an evaluated observation
FilterTellCall ==
  /\ filter # NoRes
  /\ \E id \in TrialIds, param \in Evaluated(filter.kind) :
       LET r == IF filter.kind = "discrete-to-continuous"
                  THEN D2CFilterTell(filter, Obs(id, param))
                  ELSE OneHotFilterTell(filter, Obs(id, param))
       IN /\ filter' = r.filter
          /\ fout' = [hook |-> "tell", id |-> id, param |-> param,
                      res |-> r.res]
          /\ pending' = MapRemove(pending, id)
  /\ UNCHANGED <<finishVars, domainVars, solverVars, matchVars, optunaVars,
                 problemVars, capabilityVars, messageVars, externalVars, scorerVars, epiVars>>

\* -------------------------------------------------------- specifications
Next ==
  \/ \E t \in Threads : CreateProblemBegin(t)
  \/ \E t \in Threads : CreateEvaluatorBegin(t)
  \/ \E t \in Threads : EvaluateBegin(t)
  \/ \E t \in Threads : DropProblemBegin(t)
  \/ \E t \in Threads : DropEvaluatorBegin(t)
  \/ \E t \in Threads : DropFactory(t)
  \/ \E t \in Threads : LockTxSend(t)
  \/ \E t \in Threads : LockRx(t)
  \/ \E t \in Threads : RecvIter(t)
  \/ ChildAnswer
  \/ ChildExit

Spec == Init /\ [][Next]_vars

NextLaunch ==
  \/ \E t \in Threads : CreateFactorySpawn(t)
  \/ \E t \in Threads : RecvIter(t)
  \/ ChildEmit
  \/ ChildExit

SpecLaunch == InitLaunch /\ [][NextLaunch]_vars

\* the EPI side in its state before create_factory, no thread running
EpiIdle ==
  /\ InitCommon
  /\ child = "none"
  /\ factory = "none"
  /\ next_problem_id = 0
  /\ next_evaluator_id = [p \in PIds |-> 0]
  /\ problems = {}
  /\ evaluators = {}
  /\ events = <<>>

\* VariableBuilder::finish on every builder of FinishBuilders
InitFinish ==
  /\ EpiIdle
  /\ ExternalIdle /\ ScorerIdle
  /\ FilterIdle
  /\ MessageIdle
  /\ CapabilityIdle
  /\ ProblemIdle
  /\ OptunaIdle
  /\ DomainIdle
  /\ SolverIdle
  /\ MatchIdle
  /\ builder \in FinishBuilders
  /\ variable = NoRes

NextFinish == FinishCall

SpecFinish == InitFinish /\ [][NextFinish]_vars

\* Domain::new on every vector of at most MaxVars builders of DomainBuilders
InitDomain ==
  /\ EpiIdle
  /\ HostIdle

NextDomain ==
  \/ PushBuilder
  \/ DomainNewCall

SpecDomain == InitDomain /\ [][NextDomain]_vars

\* RandomSolver: asks and tells on one solver and one IdGen
InitSolver ==
  /\ EpiIdle
  /\ ExternalIdle /\ ScorerIdle
  /\ FilterIdle
  /\ MessageIdle
  /\ CapabilityIdle
  /\ ProblemIdle
  /\ OptunaIdle
  /\ FinishIdle
  /\ DomainIdle
  /\ MatchIdle
  /\ idg = 0
  /\ asked = <<>>
  /\ ask_all_steps \in BOOLEAN
  /\ solver = CreateSolver(ask_all_steps)
  /\ told = NoneOpt

NextSolver ==
  \/ Ask
  \/ Tell

SpecSolver == InitSolver /\ [][NextSolver]_vars

\* successive evaluate calls on one evaluator, each on the child's answer
InitMatch ==
  /\ EpiIdle
  /\ HostIdle

NextMatch == EvaluateOnReply

SpecMatch == InitMatch /\ [][NextMatch]_vars

\* OptunaEvaluator::evaluate, called once on a new evaluator
InitOptuna ==
  /\ EpiIdle
  /\ HostIdle

NextOptuna ==
  \/ OptunaEvaluateBegin
  \/ OptunaEvaluateLoop

SpecOptuna == InitOptuna /\ [][NextOptuna]_vars

\* OptunaEvaluator::evaluate without the bound on the number of rounds.  The
\* driver thread runs the loop synchronously: a pass that can be taken is
\* taken.
NextBudget ==
  \/ OptunaEvaluateBegin
  \/ BudgetLoop

FairSpecBudget ==
  /\ InitOptuna
  /\ [][NextBudget]_vars
  /\ WF_vars(NextBudget)

\* ProblemSpecBuilder: new, then param / value / evaluation_steps, then finish
InitProblem ==
  /\ EpiIdle
  /\ HostIdle

NextProblem ==
  \/ BuilderParam
  \/ BuilderValue
  \/ BuilderEvaluationSteps
  \/ BuilderFinish

SpecProblem == InitProblem /\ [][NextProblem]_vars

\* ProblemSpec::requirements on every ProblemSpec of RequirementSpecs
InitRequirements ==
  /\ EpiIdle
  /\ ExternalIdle /\ ScorerIdle
  /\ FinishIdle /\ DomainIdle /\ SolverIdle /\ MatchIdle /\ OptunaIdle
  /\ CapabilityIdle /\ MessageIdle /\ FilterIdle
  /\ psb = ProblemSpecBuilderNew
  /\ steps_set = FALSE
  /\ pspec \in {Ok(spec) : spec \in RequirementSpecs}

NextRequirements == RequirementsCall

SpecRequirements == InitRequirements /\ [][NextRequirements]_vars

\* the capability check on every pair of Capabilities values
InitCapabilities ==
  /\ EpiIdle
  /\ ExternalIdle /\ ScorerIdle
  /\ FinishIdle /\ DomainIdle /\ SolverIdle /\ MatchIdle /\ OptunaIdle
  /\ ProblemIdle /\ MessageIdle /\ FilterIdle
  /\ capabilities \in SUBSET Capability
  /\ required \in {Some(r) : r \in SUBSET Capability}
  /\ verdict = NoneOpt

NextCapabilities == CapabilityCheck

SpecCapabilities == InitCapabilities /\ [][NextCapabilities]_vars

\* every ProblemMessage value is written as JSON and read back
InitMessage ==
  /\ EpiIdle
  /\ ExternalIdle /\ ScorerIdle
  /\ FinishIdle /\ DomainIdle /\ SolverIdle /\ MatchIdle /\ OptunaIdle
  /\ ProblemIdle /\ CapabilityIdle /\ FilterIdle
  /\ message \in MessageValues
  /\ json = NoneOpt
  /\ parsed = NoRes

NextMessage ==
  \/ MessageToJson
  \/ MessageFromJson

SpecMessage == InitMessage /\ [][NextMessage]_vars

\* ExternalCommandOptimizer: build, then asks and tells with at most one
\* tell between two asks, and the child
InitExternal ==
  /\ EpiIdle
  /\ HostIdle

NextExternal ==
  \/ XBuild
  \/ XAsk
  \/ XTell
  \/ XChildWrite
  \/ XChildExit

SpecExternal == InitExternal /\ [][NextExternal]_vars

\* a study record without trials; trials are recorded, then the scorer is
\* made and asked
InitScorer ==
  /\ EpiIdle
  /\ FinishIdle /\ DomainIdle /\ SolverIdle /\ MatchIdle /\ OptunaIdle
  /\ ProblemIdle /\ CapabilityIdle /\ MessageIdle /\ FilterIdle
  /\ ExternalIdle
  /\ study \in {[trial_budget |-> b, trials |-> <<>>] : b \in TrialBudgets}
  /\ bests = NoRes
  /\ scores = <<>>

NextScorer ==
  \/ RecordTrial
  \/ ScorerCall
  \/ BestValueCall

SpecScorer == InitScorer /\ [][NextScorer]_vars

\* a JSON array is read as a Domain
InitDecode ==
  /\ EpiIdle
  /\ ExternalIdle /\ ScorerIdle
  /\ FinishIdle /\ DomainIdle /\ SolverIdle /\ MatchIdle /\ OptunaIdle
  /\ ProblemIdle /\ CapabilityIdle /\ FilterIdle
  /\ message = NoneOpt
  /\ json \in {Some(j) : j \in DomainJsons}
  /\ parsed = NoRes

NextDecode == DomainFromJsonCall

SpecDecode == InitDecode /\ [][NextDecode]_vars

\* one of the two filters, made for FilterProblem; then asks and tells
InitFilter ==
  /\ EpiIdle
  /\ ExternalIdle /\ ScorerIdle
  /\ FinishIdle /\ DomainIdle /\ SolverIdle /\ MatchIdle /\ OptunaIdle
  /\ ProblemIdle /\ CapabilityIdle /\ MessageIdle
  /\ filter \in {CreateD2CFilter, CreateOneHotFilter}
  /\ pending = <<>>
  /\ fout = NoRes

NextFilter ==
  \/ FilterAskCall
  \/ FilterTellCall

SpecFilter == InitFilter /\ [][NextFilter]_vars

TypeOK ==
  /\ child \in {"none", "running", "exited", "reaped"}
  /\ txOwner \in Threads \cup {None}
  /\ rxOwner \in Threads \cup {None}
  /\ factory \in {"none", "live", "dropped"}
  /\ nops \in 0..MaxOps
  /\ pc \in [Threads -> {"idle", "lock_tx", "lock_rx", "recv"}]

\* fairness: every thread that can take its next step eventually takes it,
\* and a running child eventually answers what is on its stdin
FairSpec ==
  /\ Spec
  /\ \A t \in Threads :
       WF_vars(LockTxSend(t) \/ LockRx(t) \/ RecvIter(t))
  /\ WF_vars(ChildAnswer)

\* ------------------------------------------------------------- properties
Returned(t) == pc[t] = "idle" /\ op[t].kind \in Calls

\* the request of the call of t is on the wire and its reply is not read yet
InFlight(t) ==
  /\ op[t].kind \in Calls
  /\ pc[t] \in {"lock_rx", "recv"}
  /\ Got(op[t]) = 0

\* the message a tagged line carries, when it is the frame of a message
Carried(bytes) == bytes[2].m

IsFrame(bytes) == Len(bytes) = 3 /\ bytes[1] = Tag /\ bytes[2].k = "json"

C1_Pairing ==
  \A t \in Threads :
    op[t].kind \in Calls =>
      \A i \in DOMAIN op[t].reads : op[t].reads[i].re = op[t].seq

C1_Step ==
  \A t \in Threads :
    InFlight(t) =>
      /\ nwrites' = nwrites
      /\ Len(stdout') < Len(stdout) =>
           Len(op'[t].reads) = Len(op[t].reads) + 1

\* C1: call-reply pairs are atomic.  While the request of a call is written
\* and its reply is not read yet, no line is written to the child's stdin and
\* only the caller takes lines from the child's stdout; every line a caller
\* reads is the child's answer to the caller's own request.
C1_CallReplyAtomic == []C1_Pairing /\ [][C1_Step]_vars

\* two calls of different threads have each read their own reply
C1_Witness ==
  \E t, u \in Threads :
    /\ t # u
    /\ op[t].kind \in Calls /\ op[u].kind \in Calls
    /\ Got(op[t]) = 1 /\ Got(op[u]) = 1
    /\ op[t].seq # op[u].seq

\* C2: framing round trip.  recv on the line that send(M) produced returns
\* Ok(M).
C2_FramingRoundTrip ==
  \A t \in Threads : \A m \in ChildMessages :
    (/\ op[t].kind = "create_factory"
     /\ op[t].reads = <<[re |-> 0, bytes |-> Frame(m)]>>) =>
      op[t].rcv = Ok(m)

\* C3: n untagged lines before a tagged line.  Once recv has read the first
\* tagged line it has returned, it has read nothing beyond that line, and
\* the error stream holds the n untagged lines, each once and in order.
C3_LogLinesForwarded ==
  \A t \in Threads : \A i \in DOMAIN op[t].reads :
    (/\ op[t].kind = "create_factory"
     /\ Tagged(op[t].reads[i].bytes)
     /\ \A j \in 1..(i - 1) : ~Tagged(op[t].reads[j].bytes)) =>
      /\ op[t].rcv # NoRes
      /\ Len(op[t].reads) = i
      /\ stderr = [j \in 1..(i - 1) |-> op[t].reads[j].bytes \o <<NL>>]

\* C4: end of file before a tagged line.  Once read_line has reported end of
\* file, recv has returned an error and the pending call has returned it.
C4_EofReturnsError ==
  \A t \in Threads :
    (op[t].kind \in Calls /\ op[t].size = 0) =>
      /\ pc[t] = "idle"
      /\ op[t].rcv.tag = "err"
      /\ op[t].res.tag = "err"

\* C5: the result of a call is decided by the child's next tagged message:
\* Ok with the reply's contents for the matching reply variant, the error
\* kind of an ErrorReply, an error for any other variant.
C5_ReplyDecidesResult ==
  \A t \in Threads :
    (/\ Returned(t)
     /\ Len(op[t].reads) = 1
     /\ IsFrame(op[t].reads[1].bytes)) =>
      LET m == Carried(op[t].reads[1].bytes) IN
        /\ (op[t].kind = "create_evaluator" /\ m.type = "CREATE_EVALUATOR_REPLY")
             => op[t].res.tag = "ok"
        /\ (op[t].kind = "evaluate" /\ m.type = "EVALUATE_REPLY")
             => op[t].res = Ok(<<m.current_step, m.values>>)
        /\ m.type = "ERROR_REPLY" => op[t].res = Err(m.kind)
        /\ m.type \notin {"CREATE_EVALUATOR_REPLY", "EVALUATE_REPLY",
                          "ERROR_REPLY"} => op[t].res.tag = "err"

C7_NoRead ==
  \A u \in Threads :
    op[u].kind \in Casts =>
      op[u].reads = <<>> /\ pc[u] \notin {"lock_rx", "recv"}

C7_Step ==
  \A t, u \in Threads :
    (InFlight(t) /\ Busy(u) /\ op[u].kind \in Casts) =>
      op'[u].wrote <= op[u].wrote

\* C7: casts keep their position.  No cast is written to the child's stdin
\* while the request of a call is written and its reply not read yet, and a
\* cast never reads from the child's stdout.
C7_CastsKeepPosition == []C7_NoRead /\ [][C7_Step]_vars

\* a cast waits for the sender while a call is between request and reply
C7_Witness ==
  \E t, u \in Threads :
    /\ InFlight(t)
    /\ pc[t] = "recv"
    /\ op[u].kind \in Casts
    /\ pc[u] = "lock_tx"

\* the receiver is locked only by the holder of the sender, and never by a
\* cast
LockDiscipline ==
  /\ rxOwner # None => txOwner = rxOwner
  /\ \A t \in Threads : pc[t] = "recv" => rxOwner = t /\ txOwner = t
  /\ \A t \in Threads : op[t].kind \in Casts => rxOwner # t

\* C8: lock discipline and its consequence: if the child keeps running and
\* answers every call, every started operation completes.
C8_OperationsComplete ==
  /\ []LockDiscipline
  /\ [](child = "running") => \A t \in Threads : [](Busy(t) => <>(~Busy(t)))

\* C9: teardown order.  Once the child has been killed (the factory is
\* dropped) no drop cast is still to be sent: no problem or evaluator handle
\* is live and no drop is on its way to the sender.
C9_KillAfterDropCasts ==
  factory = "dropped" =>
    /\ problems = {}
    /\ evaluators = {}
    /\ \A t \in Threads :
         op[t].kind \in {"drop_problem", "drop_evaluator"} =>
           pc[t] # "lock_tx"

\* C10: no child is leaked.  Once the host has given up on a spawned child
\* (create_factory returned an error after the spawn, or the factory was
\* dropped) the child has been killed and waited for.
C10_NoChildLeaked ==
  /\ factory = "dropped" => child = "reaped"
  /\ \A t \in Threads :
       (/\ op[t].kind = "create_factory"
        /\ pc[t] = "idle"
        /\ op[t].res.tag = "err"
        /\ child # "none") => child = "reaped"

\* the first tagged line create_factory has read, 0 if none yet
FirstTagged(o) ==
  IF \E i \in DOMAIN o.reads : Tagged(o.reads[i].bytes)
    THEN CHOOSE i \in DOMAIN o.reads :
           /\ Tagged(o.reads[i].bytes)
           /\ \A j \in 1..(i - 1) : ~Tagged(o.reads[j].bytes)
    ELSE 0

\* C11: launch handshake.  create_factory writes nothing to the child; a
\* factory exists only if the child's first tagged message was a
\* ProblemSpecCast, and it holds that cast's spec; once the first tagged
\* message is read and is another variant, create_factory has failed and no
\* factory, problem or evaluator exists.
C11_LaunchHandshake ==
  \A t \in Threads :
    op[t].kind = "create_factory" =>
      LET i == FirstTagged(op[t])
          framed == i # 0 /\ IsFrame(op[t].reads[i].bytes)
      IN
        /\ nwrites = 0 /\ stdin = <<>>
        /\ factory = "live" =>
             /\ framed
             /\ Carried(op[t].reads[i].bytes).type = "PROBLEM_SPEC_CAST"
             /\ op[t].res = Ok(Carried(op[t].reads[i].bytes).spec)
        /\ (framed /\ Carried(op[t].reads[i].bytes).type # "PROBLEM_SPEC_CAST") =>
             /\ pc[t] = "idle"
             /\ op[t].res.tag = "err"
             /\ factory = "none"
             /\ problems = {}
             /\ evaluators = {}

\* the ids handed out so far are below their counters, the ids of the
\* create_problem calls are pairwise distinct and not the id of any problem
\* handle, and likewise the evaluator ids within one problem
C12_Distinct ==
  /\ \A p \in problems : p < next_problem_id
  /\ \A e \in evaluators : e[2] < next_evaluator_id[e[1]]
  /\ \A t \in Threads :
       /\ op[t].kind = "create_problem" =>
            /\ op[t].pid < next_problem_id
            /\ Busy(t) => op[t].pid \notin problems
            /\ Busy(t) => next_evaluator_id[op[t].pid] = 0
       /\ op[t].kind = "create_evaluator" =>
            /\ op[t].eid < next_evaluator_id[op[t].pid]
            /\ Busy(t) => <<op[t].pid, op[t].eid>> \notin evaluators
  /\ \A t, u \in Threads :
       (t # u /\ op[t].kind = op[u].kind) =>
         /\ op[t].kind = "create_problem" => op[t].pid # op[u].pid
         /\ (op[t].kind = "create_evaluator" /\ op[t].pid = op[u].pid) =>
              op[t].eid # op[u].eid

\* a call takes the value of its counter and leaves the counter one higher;
\* no counter ever goes down
C12_Step ==
  /\ next_problem_id' >= next_problem_id
  /\ \A p \in PIds : next_evaluator_id'[p] >= next_evaluator_id[p]
  /\ \A t \in Threads :
       (pc[t] = "idle" /\ pc'[t] # "idle") =>
         /\ op'[t].kind = "create_problem" =>
              /\ op'[t].pid = next_problem_id
              /\ next_problem_id' = next_problem_id + 1
         /\ op'[t].kind = "create_evaluator" =>
              /\ op'[t].eid = next_evaluator_id[op'[t].pid]
              /\ next_evaluator_id'[op'[t].pid] =
                   next_evaluator_id[op'[t].pid] + 1

\* C12: duplicate-free ids.  Under any interleaving of create_problem and
\* create_evaluator calls no problem id and no evaluator id of one problem is
\* handed out twice: every call, whatever its outcome, takes the next integer
\* of its counter.
C12_DuplicateFreeIds == []C12_Distinct /\ [][C12_Step]_vars

\* two threads are inside create_evaluator of the same problem at once
C12_Witness ==
  \E t, u \in Threads :
    /\ t # u
    /\ Busy(t) /\ Busy(u)
    /\ op[t].kind = "create_evaluator" /\ op[u].kind = "create_evaluator"
    /\ op[t].pid = op[u].pid
    /\ op[t].eid # op[u].eid

\* C13: trial ids are unique within a study.  Of the trials the asks on one
\* solver and one IdGen have returned, a later one has a greater id than
\* every earlier one.
C13_TrialIdsIncrease ==
  \A i, j \in DOMAIN asked :
    (i < j /\ asked[i].tag = "ok" /\ asked[j].tag = "ok") =>
      asked[i].v.id < asked[j].v.id

\* two asks have returned a trial, and an ask between them has failed
C13_Witness ==
  \E i, j, k \in DOMAIN asked :
    /\ i < j /\ j < k
    /\ asked[i].tag = "ok"
    /\ asked[j].tag = "err"
    /\ asked[k].tag = "ok"

RECURSIVE TotalCharged(_)
TotalCharged(rs) ==
  IF rs = <<>> THEN 0
  ELSE (IF Head(rs).charged.tag = "some" THEN Head(rs).charged.v ELSE 0)
         + TotalCharged(Tail(rs))

C16_NeverRestarted ==
  /\ \A i, j \in DOMAIN created : i # j => created[i] # created[j]
  /\ \A i, j \in DOMAIN rounds :
       rounds[i].id = rounds[j].id => rounds[i].inst = rounds[j].inst

\* ----------------------------------------------------- domain.rs, claims
\* a range that holds at least one value
NonEmpty(range) ==
  IF range.t = "CATEGORICAL" THEN range.choices # <<>>
  ELSE range.low < range.high

\* a builder that is valid by itself: a non-empty range, and a log-uniform
\* distribution only over a numerical range above zero
WellFormed(b) ==
  /\ NonEmpty(b.range)
  /\ b.distribution = "LOG_UNIFORM" =>
       b.range.t # "CATEGORICAL" /\ b.range.low > 0

HasDuplicateName(bs) ==
  \E i, j \in DOMAIN bs : i # j /\ bs[i].name = bs[j].name

\* the value lies in the range: [low, high), or an index of a choice
InRange(range, v) ==
  IF range.t = "CATEGORICAL" THEN 0 <= v /\ v < Len(range.choices)
  ELSE range.low <= v /\ v < range.high

\* condition c on the i-th builder names an earlier builder whose range
\* holds its value
ConditionMet(bs, i, c) ==
  \E j \in 1..(i - 1) :
    bs[j].name = c.target /\ InRange(bs[j].range, c.value)

AllConditionsMet(bs) ==
  \A i \in DOMAIN bs : \A k \in DOMAIN bs[i].conditions :
    ConditionMet(bs, i, bs[i].conditions[k])

\* C17: on builders that are valid by themselves and have distinct names,
\* Domain::new succeeds exactly when every condition names an earlier
\* variable whose range contains its value, and fails with InvalidInput
\* otherwise.
C17_ConditionsValidated ==
  (/\ domain # NoRes
   /\ ~HasDuplicateName(variables)
   /\ \A i \in DOMAIN variables : WellFormed(variables[i])) =>
    IF AllConditionsMet(variables)
      THEN domain.tag = "ok"
      ELSE domain = Err("INVALID_INPUT")

\* C18: Domain::new fails with InvalidInput when two builders have the same
\* name; on builders that are valid by themselves, have distinct names and
\* no conditions it returns the variables of the builders, in their order.
C18_UniqueNamesInOrder ==
  domain # NoRes =>
    /\ HasDuplicateName(variables) => domain = Err("INVALID_INPUT")
    /\ (/\ ~HasDuplicateName(variables)
        /\ \A i \in DOMAIN variables :
             WellFormed(variables[i]) /\ variables[i].conditions = <<>>) =>
         domain = Ok(variables)

\* Domain::new has rejected three valid builders, the third named as the
\* first
C18_Witness ==
  /\ domain = Err("INVALID_INPUT")
  /\ Len(variables) = 3
  /\ \A i \in DOMAIN variables :
       WellFormed(variables[i]) /\ variables[i].conditions = <<>>
  /\ variables[1].name = variables[3].name
  /\ variables[1].name # variables[2].name

\* C19: finish fails with InvalidInput on a continuous or discrete range
\* with low >= high and on a categorical range without choices, and returns
\* the variable when the distribution is uniform and the range non-empty.
C19_EmptyRangeRejected ==
  variable # NoRes =>
    /\ ~NonEmpty(builder.range) => variable = Err("INVALID_INPUT")
    /\ (NonEmpty(builder.range) /\ builder.distribution = "UNIFORM") =>
         variable = Ok(builder)

\* finish has rejected a uniform builder whose bounds are equal
C19_Witness ==
  /\ variable = Err("INVALID_INPUT")
  /\ builder.distribution = "UNIFORM"
  /\ builder.range.t \in {"CONTINUOUS", "DISCRETE"}
  /\ builder.range.low = builder.range.high

\* C20: finish fails with InvalidInput on a log-uniform builder over a
\* continuous or discrete range with low <= 0, and returns the variable when
\* 0 < low < high.
C20_LogUniformPositive ==
  (/\ variable # NoRes
   /\ builder.distribution = "LOG_UNIFORM"
   /\ builder.range.t \in {"CONTINUOUS", "DISCRETE"}) =>
    /\ builder.range.low <= 0 => variable = Err("INVALID_INPUT")
    /\ (0 < builder.range.low /\ builder.range.low < builder.range.high) =>
         variable = Ok(builder)

\* finish has rejected a log-uniform builder over [0, 1)
C20_Witness ==
  /\ variable = Err("INVALID_INPUT")
  /\ builder.distribution = "LOG_UNIFORM"
  /\ builder.range.t \in {"CONTINUOUS", "DISCRETE"}
  /\ builder.range.low = 0
  /\ builder.range.high = 1
\* C21: ProblemSpecBuilder::finish fails with InvalidInput when
\* evaluation_steps is 0; every ProblemSpec it returns has evaluation_steps >= 1,
\* and 1 when evaluation_steps was never set on the builder.
C21_EvaluationStepsNonZero ==
  pspec # NoRes =>
    /\ psb.evaluation_steps = 0 => pspec = Err("INVALID_INPUT")
    /\ pspec.tag = "ok" =>
         /\ pspec.v.evaluation_steps >= 1
         /\ ~steps_set => pspec.v.evaluation_steps = 1

\* finish has failed on a builder whose two domains are valid and whose
\* evaluation_steps is 0
C21_Witness ==
  /\ pspec = Err("INVALID_INPUT")
  /\ psb.evaluation_steps = 0
  /\ psb.params # <<>>
  /\ \A i \in DOMAIN psb.params : WellFormed(psb.params[i])
  /\ \A i \in DOMAIN psb.values : WellFormed(psb.values[i])
  /\ ~HasDuplicateName(psb.params)
  /\ ~HasDuplicateName(psb.values)

\* C22: in every variable that VariableBuilder::finish accepts, the choice
\* labels of a categorical range are pairwise distinct.
C22_DistinctChoices ==
  (variable.tag = "ok" /\ variable.v.range.t = "CATEGORICAL") =>
    \A i, j \in DOMAIN variable.v.range.choices :
      i # j => variable.v.range.choices[i] # variable.v.range.choices[j]

\* the capability of a (range, distribution) pair
PairCapability(t, d) ==
  IF t = "CATEGORICAL" THEN "CATEGORICAL"
  ELSE IF t = "CONTINUOUS"
    THEN (IF d = "UNIFORM" THEN "UNIFORM_CONTINUOUS"
          ELSE "LOG_UNIFORM_CONTINUOUS")
    ELSE (IF d = "UNIFORM" THEN "UNIFORM_DISCRETE" ELSE "LOG_UNIFORM_DISCRETE")

\* C23: requirements() holds MULTI_OBJECTIVE iff the values domain has more
\* than one variable, CONDITIONAL iff some param has a condition, the
\* capability of the (range, distribution) pair of every param, and nothing
\* else; one log-uniform continuous param and two values give exactly
\* {LOG_UNIFORM_CONTINUOUS, MULTI_OBJECTIVE}.
C23_CapabilityDerivation ==
  required # NoneOpt =>
    LET ps == pspec.v.params_domain
        vs == pspec.v.values_domain
    IN
      /\ "MULTI_OBJECTIVE" \in required.v <=> Len(vs) > 1
      /\ "CONDITIONAL" \in required.v <=>
           \E i \in DOMAIN ps : ps[i].conditions # <<>>
      /\ required.v \ {"MULTI_OBJECTIVE", "CONDITIONAL"} =
           {PairCapability(ps[i].range.t, ps[i].distribution) : i \in DOMAIN ps}
      /\ ( /\ Len(ps) = 1
           /\ ps[1].range.t = "CONTINUOUS"
           /\ ps[1].distribution = "LOG_UNIFORM"
           /\ ps[1].conditions = <<>>
           /\ Len(vs) = 2 )
           => required.v = {"LOG_UNIFORM_CONTINUOUS", "MULTI_OBJECTIVE"}

\* requirements has been computed for one log-uniform continuous param and
\* two values
C23_Witness ==
  /\ required = Some({"LOG_UNIFORM_CONTINUOUS", "MULTI_OBJECTIVE"})
  /\ Len(pspec.v.params_domain) = 1
  /\ pspec.v.params_domain[1].range.t = "CONTINUOUS"
  /\ pspec.v.params_domain[1].distribution = "LOG_UNIFORM"
  /\ Len(pspec.v.values_domain) = 2

\* C24: S.is_superset(R) iff R is a subset of S iff S.incapables(R) is empty;
\* incapables(R) is R minus S; and a solver with Capabilities::all() passes
\* the check for every R.
C24_CapabilityCheck ==
  verdict # NoneOpt =>
    LET S == capabilities
        R == required.v
    IN
      /\ verdict.v.is_superset <=> R \subseteq S
      /\ verdict.v.is_superset <=> verdict.v.incapables = {}
      /\ verdict.v.incapables = R \ S
      /\ S = CapabilitiesAll => verdict.v.is_superset

\* a solver has been checked against requirements it does not cover
C24_Witness ==
  /\ verdict # NoneOpt
  /\ ~verdict.v.is_superset
  /\ verdict.v.incapables # {}
  /\ verdict.v.incapables # required.v

\* a value that is no number: the f64 NaN
IsNaN(p) == p \notin Int

\* C25: every NextTrial that RandomSolver::ask returns has one param per
\* variable of the params domain, in domain order, each in its variable's
\* range: low <= p < high, or 0 <= p < number of choices.
C25_ParamsInRange ==
  \A k \in DOMAIN asked :
    asked[k].tag = "ok" =>
      /\ Len(asked[k].v.params) = Len(SolverProblem.params_domain)
      /\ \A i \in DOMAIN SolverProblem.params_domain :
           /\ asked[k].v.params[i] \in Int
           /\ InRange(SolverProblem.params_domain[i].range,
                      asked[k].v.params[i])

\* the condition holds under the params of the trial: the param of its
\* target is its value
ConditionHolds(c, params) ==
  \E j \in DOMAIN SolverProblem.params_domain :
    /\ SolverProblem.params_domain[j].name = c.target
    /\ params[j] = c.value

\* C26: in every trial proposed by RandomSolver, which declares CONDITIONAL,
\* each param whose variable has a condition that does not hold under the
\* trial's other params is NaN, and each param whose conditions hold is in
\* range.
C26_InactiveParamsAreNaN ==
  "CONDITIONAL" \in RandomSolverCapabilities =>
    \A k \in DOMAIN asked :
      asked[k].tag = "ok" =>
        \A i \in DOMAIN SolverProblem.params_domain :
          LET v == SolverProblem.params_domain[i]
              p == asked[k].v.params[i]
          IN v.conditions # <<>> =>
               IF \A n \in DOMAIN v.conditions :
                    ConditionHolds(v.conditions[n], asked[k].v.params)
                 THEN ~IsNaN(p) /\ InRange(v.range, p)
                 ELSE IsNaN(p)

\* C30: with ask_all_steps, every ask requests the smallest evaluation step
\* above the current_step of the most recent tell (above 0 before any tell),
\* which is the next step; without it, every ask requests the final step and
\* tell leaves the solver as it is.
C30_Step ==
  /\ asked' # asked =>
       LET r == asked'[Len(asked')]
           last == IF told.tag = "some" THEN told.v ELSE 0
       IN /\ r.tag = "ok"
          /\ r.v.next_step.tag = "some"
          /\ IF ask_all_steps
               THEN /\ r.v.next_step.v > last
                    /\ \A s \in 1..EvaluationSteps :
                         s > last => r.v.next_step.v <= s
                    /\ r.v.next_step.v = last + 1
               ELSE r.v.next_step.v = EvaluationSteps
  /\ (~ask_all_steps /\ told' # told) => solver' = solver

C30_StepSelection == [][C30_Step]_vars

\* the type tags of the problem protocol
ProtocolTags ==
  {"PROBLEM_SPEC_CAST", "CREATE_PROBLEM_CAST", "DROP_PROBLEM_CAST",
   "CREATE_EVALUATOR_CALL", "CREATE_EVALUATOR_REPLY", "DROP_EVALUATOR_CAST",
   "EVALUATE_CALL", "EVALUATE_REPLY", "ERROR_REPLY"}

\* C27: the type tags that ProblemMessage is written under are exactly the
\* nine tags of the problem protocol, every message is written under one of
\* them, and the variants and fields the host uses are variants and fields
\* of the message type.
C27_ProtocolTags ==
  json # NoneOpt =>
    /\ json.v.type \in ProtocolTags
    /\ ProblemMessageTypes = ProtocolTags
    /\ HostVariants \subseteq ProblemMessageVariants

\* C28: the side map of a param-rewriting filter holds an entry for exactly
\* the ids that filter_ask was called with and filter_tell has not been called
\* with since; after a filter_tell that succeeded the told id has no entry;
\* and the observation a hook returns has the id it was given.
C28_SideMap ==
  filter # NoRes =>
    /\ DOMAIN filter.originals = DOMAIN pending
    /\ fout # NoRes =>
         /\ fout.res.tag = "ok" => fout.res.v.id = fout.id
         /\ (fout.hook = "tell" /\ fout.res.tag = "ok") =>
              fout.id \notin DOMAIN filter.originals

\* an id has been told and its entry is gone, while the other id, asked
\* before, is still in the map
C28_Witness ==
  /\ filter # NoRes
  /\ fout # NoRes
  /\ fout.hook = "tell"
  /\ fout.res.tag = "ok"
  /\ DOMAIN filter.originals = TrialIds \ {fout.id}

\* C29: a filter_tell hands the solver the params that the latest filter_ask
\* of the same id was given, whatever was asked and told for other ids in
\* between; for an id without a pending filter_ask it returns an error and
\* leaves the side map as it is.
C29_Step ==
  (fout' # NoRes /\ fout'.hook = "tell") =>
    IF fout'.id \in DOMAIN pending
      THEN fout'.res = Ok(Obs(fout'.id, pending[fout'.id]))
      ELSE /\ fout'.res.tag = "err"
           /\ filter'.originals = filter.originals

C29_RoundTrip == [][C29_Step]_vars

\* a tell has returned the proposed params, which are not the ones the
\* observation came with, while another id with other params is pending
C29_Witness ==
  /\ fout # NoRes
  /\ fout.hook = "tell"
  /\ fout.res.tag = "ok"
  /\ fout.res.v.param # fout.param
  /\ \E i \in DOMAIN pending : pending[i] # fout.res.v.param

\* ---------------------------------------------- problem_optuna.rs, claims
\* C31: the budget loop terminates.  Whatever the solver and the inner
\* evaluator do, an evaluate whose loop has started eventually leaves it,
\* also when every evaluation charges nothing.
C31_LoopTerminates == (opc = "loop") ~> (opc = "done")

\* ------------------------------------------------------ random.rs, claims
\* C32: RandomSolver::ask never returns an error.  In every sequence of ask
\* and tell calls whose told current_step is at most the final evaluation
\* step, every ask returns a NextTrial, with or without ask_all_steps.
C32_AskNeverFails ==
  \A i \in DOMAIN asked : asked[i].tag = "ok"

\* ------------------------------------ external_program.rs, drops, claims
\* the positions of events that hold a message of the given type
EventsOf(type) == {i \in DOMAIN events : events[i].type = type}

\* events i and j name the same problem, or the same evaluator of it
SameProblem(i, j) == events[i].problem_id = events[j].problem_id
SameEvaluator(i, j) ==
  SameProblem(i, j) /\ events[i].evaluator_id = events[j].evaluator_id

\* a thread has come back from a drop
Dropped(t) ==
  pc[t] = "idle" /\ op[t].kind \in {"drop_problem", "drop_evaluator"}

\* C33: drop casts match creations.  A DropEvaluatorCast is written at most
\* once per evaluator, only for an evaluator whose create_evaluator returned
\* the handle (never for one that failed) and after that creation's call was
\* written; a DropProblemCast is written at most once per problem and after
\* its CreateProblemCast; a drop returns without an error, its handle gone,
\* also when its cast could not be written.
C33_DropsMatchCreations ==
  /\ \A i \in EventsOf("DROP_EVALUATOR_CAST") :
       /\ \A j \in EventsOf("DROP_EVALUATOR_CAST") :
            SameEvaluator(i, j) => i = j
       /\ \E j \in EventsOf("created") :
            /\ SameEvaluator(i, j) /\ j < i
            /\ \E k \in EventsOf("CREATE_EVALUATOR_CALL") :
                 SameEvaluator(i, k) /\ k < j
       /\ \A j \in EventsOf("failed") : ~SameEvaluator(i, j)
  /\ \A i \in EventsOf("DROP_PROBLEM_CAST") :
       /\ \A j \in EventsOf("DROP_PROBLEM_CAST") : SameProblem(i, j) => i = j
       /\ \E j \in EventsOf("CREATE_PROBLEM_CAST") : SameProblem(i, j) /\ j < i
  /\ \A t \in Threads :
       Dropped(t) =>
         /\ op[t].res = Ok(<<>>)
         /\ op[t].kind = "drop_problem" => op[t].pid \notin problems
         /\ op[t].kind = "drop_evaluator" =>
              <<op[t].pid, op[t].eid>> \notin evaluators

\* the evaluator's drop cast was written, then the child went away and the
\* drop of the problem returned although its cast could not be written
C33_Witness ==
  /\ EventsOf("DROP_EVALUATOR_CAST") # {}
  /\ \E t \in Threads :
       Dropped(t) /\ op[t].kind = "drop_problem" /\ op[t].wrote = 0

\* C34: ids reach the child in issue order.  Under any interleaving of the
\* callers the CreateProblemCast messages are written with strictly
\* increasing problem_id, and the CreateEvaluatorCall messages of one problem
\* with strictly increasing evaluator_id.
C34_IssueOrder ==
  /\ \A i, j \in EventsOf("CREATE_PROBLEM_CAST") :
       i < j => events[i].problem_id < events[j].problem_id
  /\ \A i, j \in EventsOf("CREATE_EVALUATOR_CALL") :
       (i < j /\ SameProblem(i, j)) =>
         events[i].evaluator_id < events[j].evaluator_id

\* ------------------------------------------ domain.rs, Deserialize, claims
\* C35: every Domain value satisfies the constraints of Domain::new, also
\* one decoded from JSON: unique variable names, non-empty ranges, log-uniform
\* only over a positive numerical range, every condition on an earlier
\* variable whose range holds its value.
C35_DecodedDomainValid ==
  (message = NoneOpt /\ parsed.tag = "ok") =>
    /\ ~HasDuplicateName(parsed.v)
    /\ \A i \in DOMAIN parsed.v : WellFormed(parsed.v[i])
    /\ AllConditionsMet(parsed.v)

\* ------------------------------------------- external_command.rs, claims
\* the positions of the parameter vectors read
Reads == {i \in DOMAIN xlog : xlog[i] = "read"}

\* the lines written between positions i and j
WritesBetween(i, j) ==
  {k \in (i + 1)..(j - 1) :
     xlog[k] \in {"write_space", "write_empty", "write_obs"}}

\* C36: the line protocol of the external-command optimizer.  The problem
\* space is the first thing written and nothing is read before it; between
\* two consecutive reads of a parameter vector exactly one line is written,
\* the told observation if tell was called between them and an empty object
\* otherwise; ask returns a trial only when it has read a vector, so it
\* returns an error once the child's output has ended.
C36_LineProtocol ==
  /\ xlog # <<>> => xlog[1] = "write_space"
  /\ \A i \in DOMAIN xlog : xlog[i] = "write_space" => i = 1
  /\ \A i, j \in Reads :
       (i < j /\ \A k \in Reads : ~(i < k /\ k < j)) =>
         /\ Cardinality(WritesBetween(i, j)) = 1
         /\ \A k \in WritesBetween(i, j) :
              xlog[k] = IF \E t \in (i + 1)..(j - 1) : xlog[t] = "tell"
                          THEN "write_obs" ELSE "write_empty"
  /\ (xret # NoRes /\ xret.call = "ask" /\ xret.res.tag = "ok") =>
       xlog[Len(xlog)] = "read"
  /\ (xret # NoRes /\ xret.call = "ask" /\ xstdout = <<>> /\ xchild = "exited"
        /\ xlog[Len(xlog)] # "read") => xret.res.tag = "err"

\* ------------------------------------------------- record/study.rs, claims
\* the expense of the observation of record k in the records up to k
RECURSIVE Accumulated(_, _, _)
Accumulated(ts, k, n) ==
  IF n = 0 THEN 0
  ELSE (IF ts[n].obs_id = ts[k].obs_id THEN ts[n].expense ELSE 0)
         + Accumulated(ts, k, n - 1)

\* the expense of all records up to k
RECURSIVE Consumed(_, _)
Consumed(ts, k) == IF k = 0 THEN 0 ELSE ts[k].expense + Consumed(ts, k - 1)

\* record k completes its trial: the accumulated expense has reached the
\* trial budget
Completes(k) ==
  Accumulated(study.trials, k, k) >= study.trial_budget

\* C37: the best-so-far curve of the scorer.  The entries of bests have
\* non-decreasing consumption and non-increasing value; every entry is the
\* value of a record that completes its trial, pushed with the consumption up
\* to that record (0 for the first entry); best_value is non-increasing in
\* the budget and returns a value for every budget when some trial was
\* completed.
C37_BestSoFar ==
  bests # NoRes =>
    LET bs == bests.v IN
      /\ \A i, j \in DOMAIN bs :
           i < j => bs[i][1] <= bs[j][1] /\ bs[i][2] >= bs[j][2]
      /\ \A i \in DOMAIN bs :
           \E k \in DOMAIN study.trials :
             /\ Completes(k)
             /\ bs[i][2] = study.trials[k].value
             /\ bs[i][1] = IF i = 1 THEN 0 ELSE Consumed(study.trials, k)
      /\ \A i, j \in DOMAIN scores :
           (i < j /\ scores[i].tag = "ok" /\ scores[j].tag = "ok") =>
             scores[i].v >= scores[j].v
      /\ (\E k \in DOMAIN study.trials : Completes(k)) =>
           \A i \in DOMAIN scores : scores[i].tag = "ok"

\* two trials were completed, the second with a better value, and
\* best_value was asked for every budget up to the consumption
C37_Witness ==
  /\ bests # NoRes
  /\ Len(bests.v) >= 2
  /\ bests.v[1][2] > bests.v[2][2]
  /\ bests.v[2][1] > 0
  /\ Len(scores) = MaxTrials + 1
  /\ scores[1].tag = "ok"
  /\ scores[1] # scores[Len(scores)]

====
